---- MODULE Spec2Model ----
(***************************************************************************)
(* A model of the redcarrd stream republisher: the transcoder process      *)
(* orchestrator (GlobalResourceMonitor, ProcessWrapper,                    *)
(* FFmpegProcessManager), the per-channel job managers (Restreamer,        *)
(* Transmuxer) and the channel registry (ChannelManager.buildChannels).    *)
(*                                                                         *)
(* Node.js runs one callback (macrotask) at a time; the continuation of a  *)
(* resolved promise runs before the next macrotask.  Every action below is *)
(* one macrotask together with the promise continuations it triggers.      *)
(***************************************************************************)
EXTENDS Integers, Naturals, Sequences, FiniteSets, TLC

(***************************************************************************)
(* Bounds of the model.                                                    *)
(***************************************************************************)
MaxSpawns == 3          \* FFmpegProcessManager.spawn calls in one run
MaxCalls == 3           \* ensureJob calls on a job manager in one run
maxConcurrent == 1      \* FFmpegProcessManager's maxConcurrent parameter

Wrappers == 1..MaxSpawns
Channels == {"c1", "c2"}        \* channel ids given to spawn and kill
OneChannel == {"c1"}
NoWrapper == 0
Calls == 1..MaxCalls
NoJob == 0

MaxEvents == 2          \* events in one scrape handed to buildChannels
MaxTime == 2            \* hours the clock advances in one run
lifetimeHours == 1      \* ChannelManager's lifetimeHours parameter
hydrationConcurrency == 1   \* ChannelManager's hydrationConcurrency parameter
MaxRequests == 3   \* the requests of the page that are followed
MaxClock == 2      \* the milliseconds that are followed
MaxSegment == 4    \* tokens of a requested segment name
MaxBatch == 2      \* Set-Cookie headers of one answer
MaxCookies == 2    \* MAX_COOKIES_PER_CHANNEL (50 in the source), scaled so
                   \* that the limit is reached
StaleChecks == 2        \* staleThreshold / checkInterval (6 with the defaults)
MaxLines == 2           \* lines of a manifest handed to rewriteManifest
MaxFrames == 3          \* screencast frames the browser delivers
MaxChunks == 2          \* polls that harvest an audio chunk

VARIABLES
  \* GlobalResourceMonitor
  activeCount,   \* this.activeCount
  queue,         \* this.queue: the waiting spawn calls, oldest first
  \* FFmpegProcessManager
  processes,     \* this.processes: channel id -> wrapper (0: no entry)
  nextId,        \* number of spawn calls made so far
  chan,          \* wrapper -> the channel id its spawn call was given
  spc,           \* wrapper -> where its spawn call stands
  \* ProcessWrapper
  state,         \* this.state
  proc,          \* the operating-system process behind this.process
  killed,        \* this.process.killed (Node: a signal was delivered by kill())
  manifest,      \* the output manifest exists with non-zero size
  hmTimer,       \* the health monitor's interval timer is set
  kpc,           \* wrapper -> where FFmpegProcessManager.kill on it stands:
                 \* none, waiting (SIGTERM sent, racing exit and timeout), and
                 \* how it ended: returned (wrapper already killed), exited
                 \* (the exit won), waitedOut (timeout, process gone or
                 \* signalled state), gaveUp (timeout, process running, no
                 \* SIGKILL), escalated (timeout, SIGKILL sent)
  \* history, for the properties only
  released,      \* wrapper -> number of release() calls made for its slot
  headServed     \* some release has resumed the oldest waiter while a later
                 \* one kept waiting

ffVars == <<activeCount, queue, processes, nextId, chan, spc, state, proc,
            killed, manifest, hmTimer, kpc, released, headServed>>

VARIABLES
  \* Restreamer / Transmuxer (one job manager per run)
  mgr,           \* which job manager the run is about
  jobs,          \* this.jobs: channel id -> job (0: none); a job is named
                 \* by the ensureJob call that created it
  calls,         \* ensureJob call -> [pc, ch, result]
  cproc,         \* ensureJob call -> the child process it spawned
  ckilled,       \* child.killed (Node: a signal was delivered by kill())
  cmanifest,     \* the child's manifest exists with non-zero size
  clpc,          \* job -> where a cleanupJob call on it stands
  cdir,          \* ensureJob call -> its work directory: none, made, removed
  \* history, for the properties only
  during,        \* ensureJob call -> the calls for its channel id that were
                 \* in progress when it was made
  overlap        \* some ensureJob or cleanupJob call was made while another
                 \* call was in progress

jobVars == <<mgr, jobs, calls, cproc, ckilled, cmanifest, clpc, cdir, during,
             overlap>>

VARIABLES
  \* ChannelManager
  channels,      \* this.channels: the registry, in event order
  rjobs,         \* this.restreamer.jobs: channel id -> none, running, or
                 \* cleaning (cleanupJob has signalled the process and
                 \* awaits its exit; the entry is still in the map)
  rurl,          \* the embedUrl of each job in this.restreamer.jobs
  now,           \* the clock, in hours
  removedIds,    \* the ids the last buildChannels pass counted as removed
  counts,        \* the counts the last pass reported: added and updated
                 \* (total is the length of the filtered list, removed the
                 \* length of removedIds)
  \* history, for the properties only
  lastFiltered,  \* the filtered event list of the last pass
  moved,         \* the last pass had an event of the pass before it at
                 \* another position and among other events
  issued,        \* every (title, startTime, embedUrl, id) a pass produced
  prevIds,       \* the ids registered when the last pass began
  rebuilt        \* the channels, as the last pass left them, of the events
                 \* whose id was registered with another embedUrl

regVars == <<channels, rjobs, rurl, now, removedIds, counts, lastFiltered,
             moved, issued, prevIds, rebuilt>>

VARIABLES
  \* ChannelManager.hydrateStreams
  playlistReady,        \* this.playlistReady
  hydrationInProgress,  \* this.hydrationInProgress
  running,              \* a hydrateStreams call has not returned yet
  currentIndex,         \* the next index its workers take (from 1)
  claimed,              \* how often workers have taken each index of
                        \* this.channels since the last call began or the
                        \* last pass replaced the channel objects
  wk                    \* each worker of the call: where it waits (pc), the
                        \* index in this.channels of the channel object it
                        \* holds (0 when a pass has replaced the registry
                        \* since), the object's id, an embedUrl (the argument
                        \* of ensureJob at pc job, else the object's own) and
                        \* the state of the process its ensureJob spawned

hydVars == <<playlistReady, hydrationInProgress, running, currentIndex,
             claimed, wk>>

VARIABLES
  \* ChannelManager.rewriteManifest
  mpc,      \* none: no manifest yet; once: a manifest has been rewritten;
            \* twice: the result has been rewritten again
  mtext,    \* the manifest body handed to rewriteManifest
  mout,     \* what rewriteManifest returned for it
  mtwice    \* what rewriteManifest returned for mout

rwVars == <<mpc, mtext, mout, mtwice>>

VARIABLES
  \* NetworkDetector.sniff
  timer,             \* the sniff timeout: unset, pending, cleared or fired
  listenerRemoved,   \* listenerRemoved
  resolved,          \* resolved
  streamCandidates,  \* this.streamCandidates, in the Map's insertion order
  sniffed,           \* what the promise was settled with
  settled,           \* the number of resolve and reject calls made
  clock,             \* Date.now()
  requested          \* the number of requests the page has issued

snVars == <<timer, listenerRemoved, resolved, streamCandidates, sniffed,
            settled, clock, requested>>

VARIABLES
  \* server.js
  resp,      \* the response to the last request served
  \* ChannelManager.fetchStream and updateCookies
  pchannel,  \* the channel object handed to fetchStream
  fold       \* two batches of Set-Cookie headers folded in, in both orders

srvVars == <<resp, pchannel, fold>>

VARIABLES
  \* ProcessWrapper: what ProcessHealthMonitor.check reads
  quiet,        \* wrapper -> the health checks made since this.lastOutput
                \* (since this.startTime before the first output), at most
                \* StaleChecks
  errorBuffer,  \* wrapper -> the end of this.errorBuffer that getMetrics
                \* hands out as recentErrors, oldest first
  \* history, for the properties only
  erred         \* wrapper -> stderr has emitted a line since the last check

hmVars == <<quiet, errorBuffer, erred>>

VARIABLES
  \* a hydrateStreams call made while another has not returned
  later         \* whether it has not returned yet (running), the next
                \* index its workers take (cur) and its workers (wk)

ovVars == <<later>>

VARIABLES
  \* PlayerDetector.inspect, one call on one page
  results,      \* place in this.adapters -> what the adapter's tryAdapter
                \* promise resolved with, or Pending
  inspected     \* what inspect returned, or Pending

pdVars == <<results, inspected>>

VARIABLES
  \* StreamPipeline, one job, and its BrowserStreamCapture
  ppc,          \* where the job stands: start before the screencast,
                \* screencast (capture.start still awaited), running, and
                \* the steps of stop
  isRunning,    \* job.isRunning
  isCapturing,  \* capture.isCapturing
  isPaused,     \* capture.isPaused
  frameCount,   \* capture.frameCount
  audioInterval, \* capture.audioInterval is set
  stdin,        \* the transcoder's stdin: needDrain (a write returned false
                \* and no drain was emitted since), listeners (the once
                \* listeners for drain), ended, destroyed
  browser,      \* the capture's browser: open or closed
  transcoder,   \* the transcoder process: running, signalled, exited
  \* history, for the properties only
  delivered,    \* Page.screencastFrame events delivered
  acked,        \* Page.screencastFrameAck messages sent
  harvested,    \* polls that harvested an audio chunk
  refused,      \* writes that returned false
  emitted,      \* frames and audioChunks emitted while the job was running
  piped,        \* frames and audio chunks written to stdin
  tornDown      \* stdin's end, the browser's close, the transcoder's
                \* signal and its exit, in the order they happened

capVars == <<ppc, isRunning, isCapturing, isPaused, frameCount, audioInterval,
             stdin, browser, transcoder, delivered, acked, harvested,
             refused, emitted, piped, tornDown>>

\* The overlapping call, the player detector and the capture pipeline.
restVars == <<ovVars, pdVars, capVars>>

\* The detector, the server's routes, the health metrics and the rest.
extVars == <<snVars, srvVars, hmVars, restVars>>

vars == <<ffVars, jobVars, regVars, hydVars, rwVars, extVars>>

Terminal == {"crashed", "killed"}

(***************************************************************************)
(* GlobalResourceMonitor                                                   *)
(***************************************************************************)
\* acquire(): the fast path is taken when a slot is free.
CanAcquireAlways == TRUE

CanAcquire == activeCount < maxConcurrent

\* release() with a non-empty queue: which waiter is headServed, who stays.
ReleasePop(q) == [who |-> q[Len(q)], rest |-> SubSeq(q, 1, Len(q) - 1)]

ReleaseShift(q) == [who |-> Head(q), rest |-> Tail(q)]

\* release() on the monitor m = [active, queue, granted]: granted collects
\* the waiters resumed during one macrotask.
Release(m) ==
  IF Len(m.queue) > 0
    THEN [active  |-> (m.active - 1) + 1,
          queue   |-> ReleaseShift(m.queue).rest,
          granted |-> Append(m.granted, ReleaseShift(m.queue).who)]
    ELSE [active |-> m.active - 1, queue |-> m.queue, granted |-> m.granted]

Monitor == [active |-> activeCount, queue |-> queue, granted |-> <<>>]

Range(s) == {s[i] : i \in 1..Len(s)}

\* The monitor after a macrotask, and the start of every resumed spawn call:
\* new ProcessWrapper, start() up to its first await (the first fs.stat).
Resume(m) ==
  /\ activeCount' = m.active
  /\ queue' = m.queue
  /\ headServed' = (headServed \/ (Len(m.granted) > 0 /\ Len(queue) > 1))

Launched(f, m, v) == [w \in Wrappers |-> IF w \in Range(m.granted) THEN v ELSE f[w]]

(***************************************************************************)
(* FFmpegProcessManager.spawn                                              *)
(***************************************************************************)
\* spawn(channelId, ...): acquire a slot or queue; with a slot, construct
\* the wrapper and run start() up to the first poll of the manifest.
Spawn(c) ==
  /\ nextId < MaxSpawns
  /\ LET w == nextId + 1 IN
     /\ nextId' = w
     /\ chan' = [chan EXCEPT ![w] = c]
     /\ IF CanAcquire
          THEN /\ activeCount' = activeCount + 1
               /\ queue' = queue
               /\ spc' = [spc EXCEPT ![w] = "statting"]
               /\ state' = [state EXCEPT ![w] = "running"]
               /\ proc' = [proc EXCEPT ![w] = "alive"]
               /\ hmTimer' = [hmTimer EXCEPT ![w] = TRUE]
          ELSE /\ queue' = Append(queue, w)
               /\ spc' = [spc EXCEPT ![w] = "queued"]
               /\ UNCHANGED <<activeCount, state, proc, hmTimer>>
  /\ UNCHANGED <<processes, killed, manifest, kpc, released, headServed>>
  /\ UNCHANGED <<jobVars, regVars, hydVars, rwVars, extVars>>

\* The transcoder writes its first manifest (followed while spawn polls).
ManifestWritten(w) ==
  /\ proc[w] = "alive"
  /\ spc[w] \in {"statting", "sleeping"}
  /\ ~manifest[w]
  /\ manifest' = [manifest EXCEPT ![w] = TRUE]
  /\ UNCHANGED <<activeCount, queue, processes, nextId, chan, spc, state, proc,
                 killed, hmTimer, kpc, released, headServed>>
  /\ UNCHANGED <<jobVars, regVars, hydVars, rwVars, extVars>>

\* waitForManifest: fs.stat answers.  With a non-empty manifest start()
\* sets the state to healthy and spawn registers the wrapper and its exit
\* listener; otherwise the loop sleeps 500 ms.
StatDone(w) ==
  /\ spc[w] = "statting"
  /\ IF manifest[w]
       THEN /\ spc' = [spc EXCEPT ![w] = "started"]
            /\ state' = [state EXCEPT ![w] = "healthy"]
            /\ processes' = [processes EXCEPT ![chan[w]] = w]
       ELSE /\ spc' = [spc EXCEPT ![w] = "sleeping"]
            /\ UNCHANGED <<state, processes>>
  /\ UNCHANGED <<activeCount, queue, nextId, chan, proc, killed, manifest,
                 hmTimer, kpc, released, headServed>>
  /\ UNCHANGED <<jobVars, regVars, hydVars, rwVars, extVars>>

\* waitForManifest: the sleep ends.  The loop ends with an error when the
\* 30 s have passed or the state is terminal, and spawn's catch releases the
\* slot; otherwise the next fs.stat is issued.
SleepDone(w, expired) ==
  /\ spc[w] = "sleeping"
  /\ IF expired \/ state[w] \in Terminal
       THEN LET m == Release(Monitor) IN
            /\ Resume(m)
            /\ spc' = Launched([spc EXCEPT ![w] = "failed"], m, "statting")
            /\ state' = Launched(state, m, "running")
            /\ proc' = Launched(proc, m, "alive")
            /\ hmTimer' = Launched(hmTimer, m, TRUE)
            /\ released' = [released EXCEPT ![w] = @ + 1]
       ELSE /\ spc' = [spc EXCEPT ![w] = "statting"]
            /\ UNCHANGED <<activeCount, queue, state, proc, hmTimer, released, headServed>>
  /\ UNCHANGED <<processes, nextId, chan, killed, manifest, kpc>>
  /\ UNCHANGED <<jobVars, regVars, hydVars, rwVars, extVars>>

(***************************************************************************)
(* ProcessWrapper: process events, health checks                           *)
(***************************************************************************)
\* The state the 'exit' handler assigns.
ExitState(signal) == IF signal THEN "killed" ELSE "crashed"

\* The child process exits.  The wrapper's 'exit' handler sets the state,
\* stops the health monitor and emits 'exit'; the manager's listener (there
\* once spawn has returned) deletes the channel's entry and releases the
\* slot; a FFmpegProcessManager.kill waiting for this exit then resumes:
\* no SIGKILL (the state is terminal), delete the entry, release the slot.
ProcExit(w, signal) ==
  /\ proc[w] = "alive"
  /\ LET listening == spc[w] = "started"
         resuming == kpc[w] = "waiting"
         m1 == IF listening THEN Release(Monitor) ELSE Monitor
         m2 == IF resuming THEN Release(m1) ELSE m1
         n  == (IF listening THEN 1 ELSE 0) + (IF resuming THEN 1 ELSE 0)
     IN
     /\ Resume(m2)
     /\ proc' = Launched([proc EXCEPT ![w] = "exited"], m2, "alive")
     /\ state' = Launched([state EXCEPT ![w] = ExitState(signal)], m2, "running")
     /\ hmTimer' = Launched([hmTimer EXCEPT ![w] = FALSE], m2, TRUE)
     /\ spc' = Launched(spc, m2, "statting")
     /\ processes' = IF listening \/ resuming
                       THEN [processes EXCEPT ![chan[w]] = NoWrapper]
                       ELSE processes
     /\ released' = [released EXCEPT ![w] = @ + n]
     /\ kpc' = IF resuming THEN [kpc EXCEPT ![w] = "exited"] ELSE kpc
  /\ UNCHANGED <<nextId, chan, killed, manifest>>
  /\ UNCHANGED <<jobVars, regVars, hydVars, rwVars, extVars>>

\* The child could not be spawned: Node emits 'error' and no 'exit'.  The
\* wrapper's 'error' handler sets the state to crashed.
ProcError(w) ==
  /\ proc[w] = "alive"
  /\ spc[w] = "statting"
  /\ ~manifest[w]
  /\ ~killed[w]
  /\ proc' = [proc EXCEPT ![w] = "failed"]
  /\ state' = [state EXCEPT ![w] = "crashed"]
  /\ UNCHANGED <<activeCount, queue, processes, nextId, chan, spc, killed,
                 manifest, hmTimer, kpc, released, headServed>>
  /\ UNCHANGED <<jobVars, regVars, hydVars, rwVars, extVars>>

\* The state ProcessHealthMonitor.check leaves; bad: the output is stale or
\* more than three of the recent stderr lines are critical.
CheckedState(s, bad) ==
  IF s \in Terminal \/ s = "initializing" THEN s
  ELSE IF bad THEN "degraded"
  ELSE IF s = "degraded" THEN "healthy"
  ELSE s

HealthCheck(w, bad) ==
  /\ hmTimer[w]
  /\ CheckedState(state[w], bad) # state[w]
  /\ state' = [state EXCEPT ![w] = CheckedState(state[w], bad)]
  /\ UNCHANGED <<activeCount, queue, processes, nextId, chan, spc, proc, killed,
                 manifest, hmTimer, kpc, released, headServed>>
  /\ UNCHANGED <<jobVars, regVars, hydVars, rwVars, extVars>>

\* getMetrics: recentErrors is errorBuffer.slice(-RecentErrors).
RecentErrors == 10

\* check looks at the errors when more than MinErrors are recent, and
\* reports when more than MaxCritical of them are critical.
MinErrors == 5
MaxCritical == 3

\* What the transcoder writes on stderr or stdout in one chunk, trimmed:
\* nothing, a warning, an error.
Messages == {"", "Non-monotonous DTS", "Invalid data found"}

\* /error|failed|invalid/i.test(message), on the messages followed.
IsCritical(message) == message = "Invalid data found"

\* errorBuffer.push(message), as far as slice(-RecentErrors) shows it.
Push(buffer, message) ==
  IF Len(buffer) < RecentErrors THEN Append(buffer, message)
  ELSE Append(Tail(buffer), message)

\* timeSinceOutput > staleThreshold, at a check.
Stale(w) == quiet[w] >= StaleChecks

\* recentErrors.length > 5 and criticalErrors.length > 3
Critical(w) ==
  /\ Len(errorBuffer[w]) > MinErrors
  /\ Cardinality({i \in 1..Len(errorBuffer[w]) :
                    IsCritical(errorBuffer[w][i])}) > MaxCritical

\* The transcoder has been spawned and has neither exited nor failed.
Emitting(w) == proc[w] = "alive"

\* process.stdout 'data': lastOutput is set.
Stdout(w, message) ==
  /\ Emitting(w)
  /\ quiet' = [quiet EXCEPT ![w] = 0]
  /\ UNCHANGED <<errorBuffer, erred>>
  /\ UNCHANGED <<ffVars, jobVars, regVars, hydVars, rwVars, snVars, srvVars, restVars>>

\* process.stderr 'data': lastOutput is set, and a message that is not
\* empty is added to errorBuffer.
Stderr(w, message) ==
  /\ Emitting(w)
  /\ quiet' = [quiet EXCEPT ![w] = 0]
  /\ errorBuffer' = IF message = "" THEN errorBuffer
                    ELSE [errorBuffer EXCEPT ![w] = Push(@, message)]
  /\ erred' = [erred EXCEPT ![w] = (@ \/ message # "")]
  /\ UNCHANGED <<ffVars, jobVars, regVars, hydVars, rwVars, snVars, srvVars, restVars>>

\* The health monitor's interval timer fires: ProcessHealthMonitor.check
\* with the wrapper's metrics.
Check(w) ==
  /\ hmTimer[w]
  /\ state' = [state EXCEPT ![w] = CheckedState(@, Stale(w) \/ Critical(w))]
  /\ quiet' = [quiet EXCEPT ![w] = IF @ < StaleChecks THEN @ + 1 ELSE @]
  /\ erred' = [erred EXCEPT ![w] = FALSE]
  /\ UNCHANGED errorBuffer
  /\ UNCHANGED <<activeCount, queue, processes, nextId, chan, spc, proc, killed,
                 manifest, hmTimer, kpc, released, headServed>>
  /\ UNCHANGED <<jobVars, regVars, hydVars, rwVars, snVars, srvVars, restVars>>

InitHealth ==
  /\ quiet = [w \in Wrappers |-> 0]
  /\ errorBuffer = [w \in Wrappers |-> <<>>]
  /\ erred = [w \in Wrappers |-> FALSE]

(***************************************************************************)
(* FFmpegProcessManager.kill and ProcessWrapper.kill                       *)
(***************************************************************************)
\* ChildProcess.kill(signal): the signal is delivered to a running process,
\* and then Node sets process.killed.
Delivered(w) == proc[w] = "alive"

\* ProcessWrapper.kill after its wait: is the forceful kill sent?
Escalates(w) == ~killed[w] /\ state[w] \notin Terminal

\* kill(channelId): no entry, nothing happens.  A wrapper already killed:
\* ProcessWrapper.kill returns at once, the entry is deleted and the slot
\* released.  Otherwise SIGTERM is sent and the call waits for the exit or
\* the timeout.  (One kill per wrapper is followed.)
KillStart(c) ==
  /\ processes[c] # NoWrapper
  /\ LET w == processes[c] IN
     /\ kpc[w] = "none"
     /\ IF state[w] = "killed"
          THEN LET m == Release(Monitor) IN
               /\ Resume(m)
               /\ spc' = Launched(spc, m, "statting")
               /\ state' = Launched(state, m, "running")
               /\ proc' = Launched(proc, m, "alive")
               /\ hmTimer' = Launched(hmTimer, m, TRUE)
               /\ processes' = [processes EXCEPT ![c] = NoWrapper]
               /\ released' = [released EXCEPT ![w] = @ + 1]
               /\ kpc' = [kpc EXCEPT ![w] = "returned"]
               /\ UNCHANGED killed
          ELSE /\ killed' = [killed EXCEPT ![w] = @ \/ Delivered(w)]
               /\ kpc' = [kpc EXCEPT ![w] = "waiting"]
               /\ UNCHANGED <<activeCount, queue, spc, state, proc, hmTimer,
                              processes, released, headServed>>
  /\ UNCHANGED <<nextId, chan, manifest>>
  /\ UNCHANGED <<jobVars, regVars, hydVars, rwVars, extVars>>

\* ProcessWrapper.kill: the timeout wins the race.  SIGKILL is sent when
\* Escalates; the health monitor is stopped; FFmpegProcessManager.kill
\* deletes the channel's entry and releases the slot.
KillTimeout(w) ==
  /\ kpc[w] = "waiting"
  /\ LET m == Release(Monitor) IN
     /\ Resume(m)
     /\ spc' = Launched(spc, m, "statting")
     /\ state' = Launched(state, m, "running")
     /\ proc' = Launched(proc, m, "alive")
     /\ hmTimer' = Launched([hmTimer EXCEPT ![w] = FALSE], m, TRUE)
  /\ killed' = [killed EXCEPT ![w] = @ \/ (Escalates(w) /\ Delivered(w))]
  /\ processes' = [processes EXCEPT ![chan[w]] = NoWrapper]
  /\ released' = [released EXCEPT ![w] = @ + 1]
  /\ kpc' = [kpc EXCEPT ![w] = IF Escalates(w) THEN "escalated"
                                ELSE IF proc[w] = "alive" THEN "gaveUp"
                                ELSE "waitedOut"]
  /\ UNCHANGED <<nextId, chan, manifest>>
  /\ UNCHANGED <<jobVars, regVars, hydVars, rwVars, extVars>>


(***************************************************************************)
(* Job managers: Restreamer and Transmuxer                                 *)
(***************************************************************************)
\* The embed URLs or input URLs a job is asked for.
Sources == {"u1", "u2"}

InFlight(k) == calls[k].pc \notin {"idle", "done", "failed"}

Cleaning == {j \in Calls : clpc[j] \notin {"none", "done"}}

Busy == (\E k \in Calls : InFlight(k)) \/ Cleaning # {}

\* An ensureJob call is made: the next unused call, for channel id c.
\* u is the source the job is asked for: an embed URL or an input URL.
Begin(k, c, u, pc, result) ==
  /\ calls[k].pc = "idle"
  /\ \A i \in Calls : i < k => calls[i].pc # "idle"
  /\ calls' = [calls EXCEPT ![k] =
       [pc |-> pc, ch |-> c, src |-> u, result |-> result]]
  /\ during' = [during EXCEPT ![k] = {i \in Calls : InFlight(i) /\ calls[i].ch = c}]
  /\ overlap' = (overlap \/ Busy)

\* child.kill('SIGTERM'), guarded by !child.killed.
Signalled(j) == ckilled[j] \/ cproc[j] = "alive"

\* ChannelManager.ensureRestreamed: the stored job was made for another
\* embed URL.
Evicts(c, u) == jobs[c] # NoJob /\ calls[jobs[c]].src # u

\* ChannelManager.ensureRestreamed and Restreamer.ensureJob, up to the first
\* await.  A job made for another embed URL is cleaned up first
\* (Restreamer.cleanupJob: SIGTERM unless killed, then job.completion is
\* awaited; the call holds that job as its result meanwhile); otherwise
\* ensureJob awaits ensureWritableTempRoot and ensureDependencies.
REnsure(k, c, u) ==
  /\ mgr = "restreamer"
  /\ IF Evicts(c, u)
       THEN /\ Begin(k, c, u, "evict", jobs[c])
            /\ ckilled' = [ckilled EXCEPT ![jobs[c]] = Signalled(jobs[c])]
            /\ clpc' = [clpc EXCEPT ![jobs[c]] =
                 IF @ # "none" THEN @
                 ELSE IF cproc[jobs[c]] = "alive" THEN "awaitExit"
                 ELSE "awaitRm"]
       ELSE /\ Begin(k, c, u, "deps", NoJob)
            /\ UNCHANGED <<ckilled, clpc>>
  /\ UNCHANGED <<cdir, mgr, jobs, cproc, cmanifest>>
  /\ UNCHANGED <<ffVars, regVars, hydVars, rwVars, extVars>>

\* Restreamer.ensureJob: the existing job is returned, whatever its process
\* does; without one the work directory is being made.
RCheck(k) ==
  /\ mgr = "restreamer"
  /\ calls[k].pc = "deps"
  /\ calls' = [calls EXCEPT ![k] =
       IF jobs[calls[k].ch] # NoJob
         THEN [@ EXCEPT !.pc = "done", !.result = jobs[calls[k].ch]]
         ELSE [@ EXCEPT !.pc = "mkdir"]]
  /\ UNCHANGED <<cdir, mgr, jobs, cproc, ckilled, cmanifest, clpc, during, overlap>>
  /\ UNCHANGED <<ffVars, regVars, hydVars, rwVars, extVars>>

\* mkdtemp answers with the new work directory: the child is spawned and
\* the manifest awaited.
SpawnChild(k) ==
  /\ calls[k].pc = "mkdir"
  /\ calls' = [calls EXCEPT ![k].pc = "ready"]
  /\ cproc' = [cproc EXCEPT ![k] = "alive"]
  /\ cdir' = [cdir EXCEPT ![k] = "made"]
  /\ UNCHANGED <<mgr, jobs, ckilled, cmanifest, clpc, during, overlap>>
  /\ UNCHANGED <<ffVars, regVars, hydVars, rwVars, extVars>>

\* The child writes its first manifest (followed while the call polls).
ChildManifest(k) ==
  /\ cproc[k] = "alive"
  /\ calls[k].pc = "ready"
  /\ ~cmanifest[k]
  /\ cmanifest' = [cmanifest EXCEPT ![k] = TRUE]
  /\ UNCHANGED <<cdir, mgr, jobs, calls, cproc, ckilled, clpc, during, overlap>>
  /\ UNCHANGED <<ffVars, regVars, hydVars, rwVars, extVars>>

\* The poll finds the manifest: the job is stored under the channel id and
\* returned.
Ready(k) ==
  /\ calls[k].pc = "ready"
  /\ cmanifest[k]
  /\ jobs' = [jobs EXCEPT ![calls[k].ch] = k]
  /\ calls' = [calls EXCEPT ![k] = [@ EXCEPT !.pc = "done", !.result = k]]
  /\ UNCHANGED <<cdir, mgr, cproc, ckilled, cmanifest, clpc, during, overlap>>
  /\ UNCHANGED <<ffVars, regVars, hydVars, rwVars, extVars>>

\* Restreamer.waitForManifest times out: ensureJob sends SIGTERM and awaits
\* the child's exit before it throws.
RTimeout(k) ==
  /\ mgr = "restreamer"
  /\ calls[k].pc = "ready"
  /\ ~cmanifest[k]
  /\ ckilled' = [ckilled EXCEPT ![k] = Signalled(k)]
  /\ calls' = [calls EXCEPT ![k].pc = "killwait"]
  /\ UNCHANGED <<cdir, mgr, jobs, cproc, cmanifest, clpc, during, overlap>>
  /\ UNCHANGED <<ffVars, regVars, hydVars, rwVars, extVars>>

\* Transmuxer.ensureJob's 15 s timeout: the call throws and the child is
\* left as it is.
TTimeout(k) ==
  /\ mgr = "transmuxer"
  /\ calls[k].pc = "ready"
  /\ ~cmanifest[k]
  /\ calls' = [calls EXCEPT ![k].pc = "failed"]
  /\ UNCHANGED <<cdir, mgr, jobs, cproc, ckilled, cmanifest, clpc, during, overlap>>
  /\ UNCHANGED <<ffVars, regVars, hydVars, rwVars, extVars>>

\* The call's state after its child has exited; ok: exit code 0.
\* Restreamer: an exit during the manifest wait rejects it, and ensureJob
\* then awaits an 'exit' event that has passed already; an exit awaited
\* after the timeout makes it throw.  Transmuxer: an exit with a non-zero
\* code or a signal rejects the wait, an exit with code 0 does not.
AfterExit(k, ok) ==
  IF mgr = "restreamer"
    THEN IF calls[k].pc = "ready" THEN "killwait"
         ELSE IF calls[k].pc = "killwait" THEN "failed"
         ELSE calls[k].pc
    ELSE IF calls[k].pc = "ready" /\ ~ok THEN "failed"
         ELSE calls[k].pc

\* The child exits.  A Restreamer.cleanupJob awaiting job.completion goes
\* on to remove the work directory.
ChildExit(k, ok) ==
  /\ cproc[k] = "alive"
  /\ cproc' = [cproc EXCEPT ![k] = "exited"]
  /\ calls' = [calls EXCEPT ![k].pc = AfterExit(k, ok)]
  /\ clpc' = [clpc EXCEPT ![k] = IF @ = "awaitExit" THEN "awaitRm" ELSE @]
  /\ UNCHANGED <<cdir, mgr, jobs, ckilled, cmanifest, during, overlap>>
  /\ UNCHANGED <<ffVars, regVars, hydVars, rwVars, extVars>>

\* Restreamer.cleanupJob(c) on an existing job: SIGTERM unless killed, then
\* await job.completion, which the child's exit resolves.
RCleanup(c) ==
  /\ mgr = "restreamer"
  /\ jobs[c] # NoJob
  /\ clpc[jobs[c]] = "none"
  /\ ckilled' = [ckilled EXCEPT ![jobs[c]] = Signalled(jobs[c])]
  /\ clpc' = [clpc EXCEPT ![jobs[c]] =
       IF cproc[jobs[c]] = "alive" THEN "awaitExit" ELSE "awaitRm"]
  /\ overlap' = (overlap \/ Busy)
  /\ UNCHANGED <<cdir, mgr, jobs, calls, cproc, cmanifest, during>>
  /\ UNCHANGED <<ffVars, regVars, hydVars, rwVars, extVars>>

\* Transmuxer.cleanupJob(c) on an existing job: SIGTERM unless killed, then
\* await the removal of the work directory.
TCleanup(c) ==
  /\ mgr = "transmuxer"
  /\ jobs[c] # NoJob
  /\ clpc[jobs[c]] = "none"
  /\ ckilled' = [ckilled EXCEPT ![jobs[c]] = Signalled(jobs[c])]
  /\ clpc' = [clpc EXCEPT ![jobs[c]] = "awaitRm"]
  /\ overlap' = (overlap \/ Busy)
  /\ UNCHANGED <<cdir, mgr, jobs, calls, cproc, cmanifest, during>>
  /\ UNCHANGED <<ffVars, regVars, hydVars, rwVars, extVars>>

\* cleanupJob: the work directory is removed (or the removal has failed);
\* the channel id's entry is deleted.  An ensureRestreamed call that awaited
\* this cleanup goes on to Restreamer.ensureJob.
CleanupRemoved(j) ==
  /\ clpc[j] = "awaitRm"
  /\ clpc' = [clpc EXCEPT ![j] = "done"]
  /\ cdir' = [cdir EXCEPT ![j] = "removed"]
  /\ jobs' = [jobs EXCEPT ![calls[j].ch] = NoJob]
  /\ calls' = [i \in Calls |->
       IF calls[i].pc = "evict" /\ calls[i].result = j
         THEN [calls[i] EXCEPT !.pc = "deps", !.result = NoJob]
         ELSE calls[i]]
  /\ UNCHANGED <<mgr, cproc, ckilled, cmanifest, during, overlap>>
  /\ UNCHANGED <<ffVars, regVars, hydVars, rwVars, extVars>>

\* Transmuxer.isJobStale; idle: not accessed in the last 10 minutes.
IsJobStale(j, idle) == cproc[j] # "alive" \/ ckilled[j] \/ idle

\* Transmuxer.ensureJob up to its first await: a job that is not stale is
\* returned; a stale one is cleaned up first (SIGTERM unless killed, then
\* the removal of its work directory); then the work directory is made.
TEnsure(k, c, u, idle) ==
  /\ mgr = "transmuxer"
  /\ idle => jobs[c] # NoJob
  /\ IF jobs[c] = NoJob THEN Begin(k, c, u, "mkdir", NoJob)
     ELSE IF IsJobStale(jobs[c], idle) THEN Begin(k, c, u, "cleanup", jobs[c])
     ELSE Begin(k, c, u, "done", jobs[c])
  /\ ckilled' = IF jobs[c] # NoJob /\ IsJobStale(jobs[c], idle)
                  THEN [ckilled EXCEPT ![jobs[c]] = Signalled(jobs[c])]
                  ELSE ckilled
  /\ UNCHANGED <<cdir, mgr, jobs, cproc, cmanifest, clpc>>
  /\ UNCHANGED <<ffVars, regVars, hydVars, rwVars, extVars>>

\* Transmuxer.ensureJob: the stale job's directory is removed (the call
\* holds the stale job as its result meanwhile) and the channel id's entry
\* deleted; the work directory of the new job is being made.
TCleaned(k) ==
  /\ mgr = "transmuxer"
  /\ calls[k].pc = "cleanup"
  /\ jobs' = [jobs EXCEPT ![calls[k].ch] = NoJob]
  /\ cdir' = [cdir EXCEPT ![calls[k].result] = "removed"]
  /\ calls' = [calls EXCEPT ![k] = [@ EXCEPT !.pc = "mkdir", !.result = NoJob]]
  /\ UNCHANGED <<mgr, cproc, ckilled, cmanifest, clpc, during, overlap>>
  /\ UNCHANGED <<ffVars, regVars, hydVars, rwVars, extVars>>

InitJobs ==
  /\ mgr \in {"restreamer", "transmuxer"}
  /\ jobs = [c \in Channels |-> NoJob]
  /\ calls = [k \in Calls |-> [pc |-> "idle", ch |-> "none", src |-> "none", result |-> NoJob]]
  /\ cproc = [k \in Calls |-> "none"]
  /\ ckilled = [k \in Calls |-> FALSE]
  /\ cmanifest = [k \in Calls |-> FALSE]
  /\ clpc = [k \in Calls |-> "none"]
  /\ cdir = [k \in Calls |-> "none"]
  /\ during = [k \in Calls |-> {}]
  /\ overlap = FALSE

\* The calls on one job manager, all for the same channel id.
NextJobs ==
  \/ \E k \in Calls, c \in OneChannel, u \in Sources : REnsure(k, c, u)
  \/ \E k \in Calls : RCheck(k)
  \/ \E k \in Calls : SpawnChild(k)
  \/ \E k \in Calls : ChildManifest(k)
  \/ \E k \in Calls : Ready(k)
  \/ \E k \in Calls : RTimeout(k)
  \/ \E k \in Calls : TTimeout(k)
  \/ \E k \in Calls, ok \in BOOLEAN : ChildExit(k, ok)
  \/ \E c \in OneChannel : RCleanup(c)
  \/ \E c \in OneChannel : TCleanup(c)
  \/ \E j \in Calls : CleanupRemoved(j)
  \/ \E k \in Calls, c \in OneChannel, u \in Sources, idle \in BOOLEAN :
       TEnsure(k, c, u, idle)
  \/ \E k \in Calls : TCleaned(k)

(***************************************************************************)
(* ChannelManager: the channel registry                                    *)
(*                                                                         *)
(* The events are the ones the scraper produces: title, category, embedUrl *)
(* and startTime (never a start field).  streamMode is "restream" on every *)
(* channel (createOrUpdateChannel, hydrateStreams, selectSource), so the   *)
(* server never calls ensureTransmuxed and this.transmuxer.jobs stays      *)
(* empty: cleanupTransmuxJobs finds no job to evict.                       *)
(***************************************************************************)
Titles == {"A", "B"}
StartTimes == {"12:00"}
EmbedUrls == {"e1"}
Categories == {"football", "basketball"}
Selections == {{}, {"football"}}     \* the selectedCategories of a pass
Event ==
  [title : Titles, startTime : StartTimes, embedUrl : EmbedUrls,
   category : Categories]
EventLists == UNION {[1..n -> Event] : n \in 0..MaxEvents}
Null == "null"

\* The embedUrl of a source request: another source of the event, or none
\* (the request body has no embedUrl).
SourceUrls == {"e2", ""}

\* The string generateChannelId hashes.
Key(event) == event.title \o "|" \o event.startTime \o "|" \o event.embedUrl

\* The first 12 hex digits of the SHA-256 of key.  The digest is a function
\* of the key alone and is taken to be collision-free on the keys of the
\* model, which is all the model keeps of it.
Digest(key) == key

generateChannelIdWithCategory(event) ==
  "ch-" \o Digest(Key(event) \o "|" \o event.category)

generateChannelId(event) == "ch-" \o Digest(Key(event))

ChannelIds == {generateChannelId(e) : e \in Event}

\* existingChannels.get(id): the last registered channel with this id, as
\* a sequence of at most one channel.
Existing(id) ==
  LET at == {i \in DOMAIN channels : channels[i].id = id}
  IN IF at = {} THEN <<>>
     ELSE <<channels[CHOOSE i \in at : \A j \in at : j <= i]>>

\* An embedUrl is a non-empty string or none (undefined), written "".  The
\* events carry no streamUrl.
createOrUpdateChannel(id, event, existing, expiresAt) ==
  LET embedUrlChanged ==
        /\ existing # <<>>
        /\ existing[1].embedUrl # ""
        /\ existing[1].embedUrl # event.embedUrl
  IN [id |-> id,
      category |-> event.category,
      title |-> event.title,
      embedUrl |-> event.embedUrl,
      streamUrl |-> IF embedUrlChanged \/ existing = <<>> THEN Null
                    ELSE existing[1].streamUrl,
      cookies |-> IF embedUrlChanged \/ existing = <<>> THEN {}
                  ELSE existing[1].cookies,
      expiresAt |-> expiresAt]

Filtered(events, selectedCategories) ==
  IF selectedCategories # {}
  THEN SelectSeq(events, LAMBDA e : e.category \in selectedCategories)
  ELSE events

Ids(chs) == {chs[i].id : i \in DOMAIN chs}

SameEvent(e, f) ==
  /\ e.title = f.title
  /\ e.startTime = f.startTime
  /\ e.embedUrl = f.embedUrl

Others(events, i) == {Key(events[j]) : j \in DOMAIN events \ {i}}

\* Some event of the list prev is in the list last at another position and
\* among other events.
Moved(prev, last) ==
  \E i \in DOMAIN last : \E j \in DOMAIN prev :
    /\ i # j
    /\ SameEvent(last[i], prev[j])
    /\ Others(last, i) # Others(prev, j)

\* buildChannels counts an event as updated when its id is registered, as
\* added when it is not.
IsUpdateNever(id) == FALSE

IsUpdate(id) == Existing(id) # <<>>

\* The workers of a hydrateStreams call.
HWorkers == 1..hydrationConcurrency

Off == [pc |-> "off", ix |-> 0, id |-> "", url |-> "", child |-> "none"]

\* ensureRestreamed finds a job for the channel's id that was made for
\* another embedUrl.
Mismatch(st, channel) ==
  /\ st.jobs[channel.id] # "none"
  /\ st.urls[channel.id] # channel.embedUrl

\* Worker w goes round its loop until it awaits something that takes time or
\* breaks, from the state st of the call (cur: currentIndex, jobs and urls:
\* the restreamer's map, wk: the workers): a channel without embedUrl gets no
\* job and the worker takes the next index; a job made for another embedUrl
\* is cleaned up first (SIGTERM, then the wait for its exit); otherwise
\* ensureJob is called with the channel's embedUrl.
\* currentIndex is left as it is.
Stay(st) == st

\* currentIndex += 1
Advance(st) == [st EXCEPT !.cur = @ + 1]

NoneClaimed == [i \in 1..MaxEvents |-> 0]

RECURSIVE Take(_, _, _)
Take(w, chs, st) ==
  IF st.cur > Len(chs)
  THEN [st EXCEPT !.cur = @ + 1, !.wk[w] = Off]
  ELSE LET channel == chs[st.cur]
           next == [Advance(st) EXCEPT !.claimed[st.cur] = @ + 1]
           at(pc) == [pc |-> pc, ix |-> st.cur, id |-> channel.id,
                      url |-> channel.embedUrl, child |-> "none"]
       IN IF channel.embedUrl = "" THEN Take(w, chs, next)
          ELSE IF Mismatch(st, channel)
          THEN [next EXCEPT !.jobs[channel.id] = "cleaning",
                            !.wk[w] = at("cleanup")]
          ELSE [next EXCEPT !.wk[w] = at("job")]

\* The workers 1..n of a call start one after the other.
RECURSIVE StartWorkers(_, _, _)
StartWorkers(n, chs, st) ==
  IF n = 0 THEN st ELSE Take(n, chs, StartWorkers(n - 1, chs, st))

\* ensureRestreamed after its cleanupJob: ensureJob with the embedUrl the
\* channel object has by now, which returns null when there is none.
AfterCleanup(w, chs, st) ==
  IF st.wk[w].url = "" THEN Take(w, chs, st)
  ELSE [st EXCEPT !.wk[w].pc = "job"]

\* The workers among 1..n that await the cleanup of the job of id go on.
RECURSIVE Resumed(_, _, _, _)
Resumed(n, id, chs, st) ==
  IF n = 0 THEN st
  ELSE LET prev == Resumed(n - 1, id, chs, st)
       IN IF prev.wk[n].pc = "cleanup" /\ prev.wk[n].id = id
          THEN AfterCleanup(n, chs, prev)
          ELSE prev

Here == [cur |-> currentIndex, claimed |-> claimed, jobs |-> rjobs,
         urls |-> rurl, wk |-> wk]

\* The state st of the call is stored; when its last worker has broken out
\* of its loop, Promise.all resolves and hydrateStreams returns.
Settle(st) ==
  /\ wk' = st.wk
  /\ currentIndex' = st.cur
  /\ claimed' = st.claimed
  /\ rjobs' = st.jobs
  /\ rurl' = st.urls
  /\ IF running /\ \A w \in HWorkers : st.wk[w].pc = "off"
     THEN /\ running' = FALSE
          /\ hydrationInProgress' = FALSE
          /\ playlistReady' = TRUE
     ELSE UNCHANGED <<running, hydrationInProgress, playlistReady>>

\* Restreamer.cleanupJob up to its first await, for each id: SIGTERM to the
\* job's process; the job stays in the map until the process has exited.
CleanupRestreamJobs(ids) ==
  [id \in DOMAIN rjobs |->
     IF id \in ids /\ rjobs[id] = "running" THEN "cleaning" ELSE rjobs[id]]

\* One reconcile pass.  The two eviction calls are not awaited: the pass
\* returns when they have reached their first await.  (The locals of the
\* pass are bound by \E over a one-element set, which gives each one value
\* for the whole step.)
Reconcile(events, selectedCategories) ==
  \E filtered \in {Filtered(events, selectedCategories)} :
  \E ids \in {[i \in DOMAIN filtered |-> generateChannelId(filtered[i])]} :
  \E updates \in {{i \in DOMAIN ids : IsUpdate(ids[i])}} :
  \E built \in {[i \in DOMAIN filtered |->
                   createOrUpdateChannel(ids[i], filtered[i], Existing(ids[i]),
                                         now + lifetimeHours)]} :
  \E newIds \in {{ids[i] : i \in DOMAIN ids}} :
  \E removedChannels \in
       {SelectSeq(channels,
                  LAMBDA ch : ch.id \notin newIds \/ ch.expiresAt < now)} :
     /\ channels' = built
     /\ removedIds' = [i \in DOMAIN removedChannels |-> removedChannels[i].id]
     /\ rjobs' = CleanupRestreamJobs(Ids(removedChannels))
     /\ counts' = [added   |-> Cardinality(DOMAIN ids \ updates),
                   updated |-> Cardinality(updates)]
     /\ prevIds' = Ids(channels)
     /\ rebuilt' = {built[i] : i \in {j \in DOMAIN filtered :
                       /\ Existing(ids[j]) # <<>>
                       /\ Existing(ids[j])[1].embedUrl # filtered[j].embedUrl}}
     /\ moved' = Moved(lastFiltered, filtered)
     /\ lastFiltered' = filtered
     /\ issued' = issued \cup
          {[title |-> filtered[i].title, startTime |-> filtered[i].startTime,
            embedUrl |-> filtered[i].embedUrl, id |-> ids[i]] :
             i \in DOMAIN filtered}
     /\ wk' = [w \in HWorkers |-> [wk[w] EXCEPT !.ix = 0]]
     /\ UNCHANGED <<now, rurl, running, currentIndex>>

\* buildChannels: the pass, after which no channel object of the registry
\* has been taken by a worker.
BuildChannels(events, selectedCategories) ==
  /\ Reconcile(events, selectedCategories)
  /\ playlistReady' = FALSE
  /\ hydrationInProgress' = FALSE
  /\ claimed' = NoneClaimed
  /\ UNCHANGED <<ffVars, jobVars, rwVars, extVars>>

\* An hour passes.
Tick ==
  /\ now < MaxTime
  /\ now' = now + 1
  /\ UNCHANGED <<channels, rjobs, rurl, removedIds, counts, lastFiltered,
                 moved, issued, prevIds, rebuilt>>
  /\ UNCHANGED <<ffVars, jobVars, hydVars, rwVars, extVars>>

\* One iteration of a hydrateStreams worker on the channel at index i, with
\* nothing else running between its steps and a job, if there is one, that
\* was made for the channel's embedUrl: ensureRestreamed returns the channel
\* id's job, a new one when the map has none, and the channel is pointed at
\* the job's manifest.
HydrateChannel(i) ==
  /\ i \in DOMAIN channels
  /\ channels[i].id \in DOMAIN rjobs
  /\ rjobs[channels[i].id] # "running" \/ channels[i].streamUrl = Null
  /\ rjobs[channels[i].id] = "none" \/ rurl[channels[i].id] = channels[i].embedUrl
  /\ rjobs' = [rjobs EXCEPT ![channels[i].id] =
                 IF @ = "none" THEN "running" ELSE @]
  /\ rurl' = [rurl EXCEPT ![channels[i].id] = channels[i].embedUrl]
  /\ channels' = [channels EXCEPT ![i].streamUrl = "manifest"]
  /\ UNCHANGED <<now, removedIds, counts, lastFiltered, moved, issued, prevIds, rebuilt>>
  /\ UNCHANGED <<ffVars, jobVars, hydVars, rwVars, extVars>>

\* The process of a job being cleaned up has exited: cleanupJob removes the
\* working directory and deletes the job from the map.
\* The workers that awaited it call ensureJob.
CleanupDone(id) ==
  /\ rjobs[id] = "cleaning"
  /\ Settle(Resumed(hydrationConcurrency, id, channels,
                    [Here EXCEPT !.jobs[id] = "none", !.urls[id] = ""]))
  /\ UNCHANGED <<channels, now, removedIds, counts, lastFiltered, moved, issued,
                 prevIds, rebuilt>>
  /\ UNCHANGED <<ffVars, jobVars, rwVars, extVars>>

\* hydrateStreams is called while no other call is in flight.  With no
\* channel it returns at once; otherwise min(hydrationConcurrency, number of
\* channels) workers start, and the call returns when all have finished.
HydrateStreams ==
  /\ ~running
  /\ ~later.running
  /\ IF channels = <<>>
     THEN /\ playlistReady' = TRUE
          /\ hydrationInProgress' = FALSE
          /\ UNCHANGED <<running, currentIndex, claimed, wk, rjobs, rurl>>
     ELSE \E workerCount \in
               {IF hydrationConcurrency < Len(channels)
                THEN hydrationConcurrency ELSE Len(channels)} :
          \E st \in {StartWorkers(workerCount, channels,
                                  [Here EXCEPT !.cur = 1,
                                               !.claimed = NoneClaimed,
                                               !.wk = [w \in HWorkers |-> Off]])} :
            /\ wk' = st.wk
            /\ currentIndex' = st.cur
            /\ claimed' = st.claimed
            /\ rjobs' = st.jobs
            /\ rurl' = st.urls
            /\ \E done \in {\A w \in HWorkers : st.wk[w].pc = "off"} :
                 /\ running' = ~done
                 /\ hydrationInProgress' = ~done
                 /\ playlistReady' = done
  /\ UNCHANGED <<channels, now, removedIds, counts, lastFiltered, moved, issued,
                 prevIds, rebuilt>>
  /\ UNCHANGED <<ffVars, jobVars, rwVars, extVars>>

\* The ensureJob a worker awaits returns a job: the one in the map, or a new
\* one whose process has produced its manifest (the check of the map, the
\* spawn and the wait are one step here).  The worker points the channel
\* object it holds at the manifest and takes the next index.
HJobReady(w) ==
  /\ wk[w].pc = "job"
  /\ \E id \in {wk[w].id} :
     \E fresh \in {rjobs[id] = "none"} :
       /\ channels' = IF wk[w].ix = 0 THEN channels
                      ELSE [channels EXCEPT ![wk[w].ix].streamUrl = "manifest"]
       /\ Settle(Take(w, channels,
                      [Here EXCEPT !.jobs[id] = IF fresh THEN "running" ELSE @,
                                   !.urls[id] = IF fresh THEN wk[w].url ELSE @]))
  /\ UNCHANGED <<now, removedIds, counts, lastFiltered, moved, issued, prevIds, rebuilt>>
  /\ UNCHANGED <<ffVars, jobVars, rwVars, extVars>>

\* The process the awaited ensureJob has spawned yields no manifest: the
\* wait times out with the process running, or the process is gone (it has
\* exited, or could not be started).  ensureJob sends SIGTERM unless
\* child.killed is set and then awaits the process's next 'exit' event.
HJobFail(w, gone) ==
  /\ wk[w].pc = "job"
  /\ rjobs[wk[w].id] = "none"
  /\ wk' = [wk EXCEPT ![w].pc = "killwait",
                      ![w].child = IF gone THEN "gone" ELSE "signalled"]
  /\ UNCHANGED <<playlistReady, hydrationInProgress, running, currentIndex,
                 claimed>>
  /\ UNCHANGED regVars
  /\ UNCHANGED <<ffVars, jobVars, rwVars, extVars>>

\* The signalled process exits: ensureJob throws, the worker catches the
\* error and takes the next index.
HKilled(w) ==
  /\ wk[w].pc = "killwait"
  /\ wk[w].child = "signalled"
  /\ Settle(Take(w, channels, Here))
  /\ UNCHANGED <<channels, now, removedIds, counts, lastFiltered, moved, issued,
                 prevIds, rebuilt>>
  /\ UNCHANGED <<ffVars, jobVars, rwVars, extVars>>

\* selectSource or selectQuality (the two make the same assignments to the
\* fields kept here) for the first channel with this id; the embedUrl of the
\* request is taken as it comes.
SelectSource(channelId, embedUrl) ==
  /\ \E i \in DOMAIN channels : channels[i].id = channelId
  /\ \E i \in {CHOOSE i \in DOMAIN channels :
                  /\ channels[i].id = channelId
                  /\ \A j \in 1..(i - 1) : channels[j].id # channelId} :
       /\ channels' = [channels EXCEPT ![i].embedUrl = embedUrl,
                                       ![i].streamUrl = Null,
                                       ![i].cookies = {}]
       /\ wk' = [w \in HWorkers |->
                   IF wk[w].ix = i /\ wk[w].pc = "cleanup"
                   THEN [wk[w] EXCEPT !.url = embedUrl] ELSE wk[w]]
  /\ playlistReady' = FALSE
  /\ hydrationInProgress' = FALSE
  /\ UNCHANGED <<running, currentIndex, claimed>>
  /\ UNCHANGED <<rjobs, rurl, now, removedIds, counts, lastFiltered, moved,
                 issued, prevIds, rebuilt>>
  /\ UNCHANGED <<ffVars, jobVars, rwVars, extVars>>

InitRegistry ==
  /\ channels = <<>>
  /\ rjobs = [id \in ChannelIds |-> "none"]
  /\ rurl = [id \in ChannelIds |-> ""]
  /\ playlistReady = FALSE
  /\ hydrationInProgress = FALSE
  /\ running = FALSE
  /\ currentIndex = 1
  /\ claimed = NoneClaimed
  /\ wk = [w \in HWorkers |-> Off]
  /\ now = 0
  /\ removedIds = <<>>
  /\ lastFiltered = <<>>
  /\ moved = FALSE
  /\ issued = {}
  /\ counts = [added |-> 0, updated |-> 0]
  /\ prevIds = {}
  /\ rebuilt = {}

\* The reconcile passes alone.
NextRegistry ==
  \E events \in EventLists, selectedCategories \in Selections :
     BuildChannels(events, selectedCategories)

\* The reconcile passes with the clock and the restream jobs.
\* The event lists of one category that list no event twice and event A
\* first.
FootballLists ==
  {es \in EventLists :
     /\ \A i \in DOMAIN es : es[i].category = "football"
     /\ \A i, j \in DOMAIN es : es[i] = es[j] => i = j
     /\ es # <<>> => es[1].title = "A"}

\* The reconcile passes with hydrateStreams and the source requests.
NextHydration ==
  \/ \E events \in FootballLists : BuildChannels(events, {})
  \/ HydrateStreams
  \/ \E w \in HWorkers : HJobReady(w)
  \/ \E w \in HWorkers, gone \in BOOLEAN : HJobFail(w, gone)
  \/ \E w \in HWorkers : HKilled(w)
  \/ \E id \in ChannelIds : CleanupDone(id)
  \/ \E id \in ChannelIds, embedUrl \in SourceUrls : SelectSource(id, embedUrl)

\* rebuildChannels when no other rebuild is under way: the reconcile pass
\* that comes before its hydrateStreams call.
RebuildChannels(events) ==
  /\ ~running
  /\ ~later.running
  /\ BuildChannels(events, {})

NoSecond == [running |-> FALSE, cur |-> 1, wk |-> [w \in HWorkers |-> Off]]

\* The state of the second call, for its workers' steps.
HereSecond == [cur |-> later.cur, claimed |-> claimed, jobs |-> rjobs,
               urls |-> rurl, wk |-> later.wk]

\* The state st of the second call is stored; when its last worker has
\* broken out of its loop, the call returns.
SettleSecond(st) ==
  /\ \E done \in {\A w \in HWorkers : st.wk[w].pc = "off"} :
       /\ later' = [running |-> ~done, cur |-> st.cur, wk |-> st.wk]
       /\ IF done
          THEN hydrationInProgress' = FALSE /\ playlistReady' = TRUE
          ELSE UNCHANGED <<hydrationInProgress, playlistReady>>
  /\ claimed' = st.claimed
  /\ rjobs' = st.jobs
  /\ rurl' = st.urls
  /\ UNCHANGED <<running, currentIndex, wk>>

\* rebuildChannels while the hydrateStreams call of another rebuild has not
\* returned (the interval's rebuild and POST /api/rebuild): the reconcile
\* pass and, in the same task, the start of its own hydrateStreams call on
\* the channel objects the pass has made.  A second call that would have to
\* clean up a job first is not followed.
RebuildOverlap(events) ==
  /\ running
  /\ ~later.running
  /\ Reconcile(events, {})
  /\ IF channels' = <<>>
     THEN /\ playlistReady' = TRUE
          /\ hydrationInProgress' = FALSE
          /\ claimed' = NoneClaimed
          /\ UNCHANGED later
     ELSE \E workerCount \in
               {IF hydrationConcurrency < Len(channels')
                THEN hydrationConcurrency ELSE Len(channels')} :
          \E st \in {StartWorkers(workerCount, channels',
                                  [cur |-> 1, claimed |-> NoneClaimed,
                                   jobs |-> rjobs', urls |-> rurl,
                                   wk |-> [w \in HWorkers |-> Off]])} :
          \E done \in {\A w \in HWorkers : st.wk[w].pc = "off"} :
            /\ st.jobs = rjobs'
            /\ later' = [running |-> ~done, cur |-> st.cur, wk |-> st.wk]
            /\ claimed' = st.claimed
            /\ hydrationInProgress' = ~done
            /\ playlistReady' = done
  /\ UNCHANGED <<ffVars, jobVars, rwVars, snVars, srvVars, hmVars, pdVars,
                 capVars>>

\* The ensureJob a worker of the second call awaits returns a job; the
\* worker points its channel at the manifest and takes the next index.
SecondJobReady(w) ==
  /\ later.wk[w].pc = "job"
  /\ \E id \in {later.wk[w].id} :
     \E fresh \in {rjobs[id] = "none"} :
       /\ channels' = [channels EXCEPT ![later.wk[w].ix].streamUrl = "manifest"]
       /\ SettleSecond(Take(w, channels,
                            [HereSecond EXCEPT
                               !.jobs[id] = IF fresh THEN "running" ELSE @,
                               !.urls[id] = IF fresh THEN later.wk[w].url ELSE @]))
  /\ UNCHANGED <<now, removedIds, counts, lastFiltered, moved, issued, prevIds, rebuilt>>
  /\ UNCHANGED <<ffVars, jobVars, rwVars, snVars, srvVars, hmVars, pdVars,
                 capVars>>

InitOverlap == later = NoSecond

\* The rebuilds, two of which may overlap, with the restream jobs.
NextOverlap ==
  \/ \E events \in FootballLists : RebuildChannels(events)
  \/ HydrateStreams
  \/ \E w \in HWorkers : HJobReady(w)
  \/ \E w \in HWorkers : HJobFail(w, FALSE)
  \/ \E w \in HWorkers : HKilled(w)
  \/ \E id \in ChannelIds : CleanupDone(id)
  \/ \E events \in FootballLists : RebuildOverlap(events)
  \/ \E w \in HWorkers : SecondJobReady(w)

\* The rebuilds one after the other, with the restream jobs.
NextPool ==
  \/ \E events \in FootballLists : RebuildChannels(events)
  \/ HydrateStreams
  \/ \E w \in HWorkers : HJobReady(w)
  \/ \E w \in HWorkers, gone \in BOOLEAN : HJobFail(w, gone)
  \/ \E w \in HWorkers : HKilled(w)
  \/ \E id \in ChannelIds : CleanupDone(id)

NextEviction ==
  \/ \E events \in EventLists, selectedCategories \in Selections :
        BuildChannels(events, selectedCategories)
  \/ Tick
  \/ \E i \in 1..MaxEvents : HydrateChannel(i)
  \/ \E id \in ChannelIds : CleanupDone(id)

(***************************************************************************)
(* ChannelManager.rewriteManifest                                          *)
(*                                                                         *)
(* A text is a sequence of tokens: each of the characters that the URL     *)
(* parser, encodeURIComponent, trim and split tell apart is a token of its *)
(* own, and a run of letters, digits, '.', '-' and '_' is one token.       *)
(***************************************************************************)
LF == "\n"
CR == "\r"

\* baseProxyUrl and manifestUrl of the calls.
ProxyBase == <<"https", ":", "/", "/", "me", "/", "hls", "/", "c1">>
ManifestUrl == <<"https", ":", "/", "/", "cdn", "/", "x", "/", "index.m3u8">>

\* The lines of the manifests: blank, white space, directives (one of them
\* indented), a relative reference (once between white space), a reference
\* from the root, absolute URLs (one without a path), and an absolute URL
\* with a space in its host, which the URL parser rejects.
ManifestLines ==
  {<<>>,
   <<" ">>,
   <<"#", "EXTM3U">>,
   <<" ", "#", "EXT-X-ENDLIST">>,
   <<"seg0.ts">>,
   <<" ", "seg0.ts", " ">>,
   <<"/", "z", "/", "seg1.ts">>,
   <<"https", ":", "/", "/", "cdn", "/", "y", "/", "seg2.ts">>,
   <<"https", ":", "/", "/", "cdn">>,
   <<"https", ":", "/", "/", "c", " ", "dn", "/", "seg3.ts">>}

\* Array.prototype.join
RECURSIVE Join(_, _)
Join(lines, sep) ==
  IF Len(lines) = 0 THEN <<>>
  ELSE IF Len(lines) = 1 THEN lines[1]
  ELSE lines[1] \o sep \o Join(Tail(lines), sep)

\* The manifest bodies: one to MaxLines lines, ended by LF or by CR LF.
Manifests ==
  {Join(lines, eol) :
     lines \in UNION {[1..n -> ManifestLines] : n \in 1..MaxLines},
     eol \in {<<LF>>, <<CR, LF>>}}

\* String.prototype.split(/\r?\n/)
RECURSIVE Split(_)
Split(text) ==
  IF \A i \in DOMAIN text : text[i] # LF THEN <<text>>
  ELSE LET n == CHOOSE i \in DOMAIN text :
                  text[i] = LF /\ \A j \in 1..(i - 1) : text[j] # LF
           end == IF n > 1 /\ text[n - 1] = CR THEN n - 2 ELSE n - 1
       IN <<SubSeq(text, 1, end)>> \o Split(SubSeq(text, n + 1, Len(text)))

WhiteSpace == {" ", CR, LF}

\* String.prototype.trim
RECURSIVE Trim(_)
Trim(line) ==
  IF line = <<>> THEN line
  ELSE IF line[1] \in WhiteSpace THEN Trim(Tail(line))
  ELSE IF line[Len(line)] \in WhiteSpace
       THEN Trim(SubSeq(line, 1, Len(line) - 1))
  ELSE line

\* trimmed.startsWith('#')
IsDirective(trimmed) == trimmed # <<>> /\ trimmed[1] = "#"

Delimiters == {":", "/", "?", "=", "%", "#", " ", CR, LF}

\* new URL(url).toString() for a URL with a scheme, as a sequence of at most
\* one text (none: the constructor throws).  The URLs of the model are
\* scheme://host followed by nothing or by a path; a host is one token, so
\* that a host followed by a space is rejected, and an empty path is
\* written "/".
ParseAbsolute(url) ==
  IF /\ Len(url) >= 5
     /\ url[1] \in {"http", "https"} /\ url[2] = ":"
     /\ url[3] = "/" /\ url[4] = "/"
     /\ url[5] \notin Delimiters
     /\ Len(url) > 5 => url[6] = "/"
     /\ \A i \in DOMAIN url : url[i] \notin WhiteSpace
  THEN <<IF Len(url) = 5 THEN url \o <<"/">> ELSE url>>
  ELSE <<>>

\* The base URL up to and with the last '/' of its path.
Directory(base) ==
  SubSeq(base, 1, CHOOSE i \in DOMAIN base :
                    base[i] = "/" /\ \A j \in (i + 1)..Len(base) : base[j] # "/")

\* new URL(trimmed, manifestUrl).toString(), as a sequence of at most one
\* text: a reference with a scheme is parsed on its own; one without is
\* resolved against the base, from the root when it starts with '/' and
\* from the base's directory otherwise.
Resolve(trimmed, manifestUrl) ==
  IF Len(trimmed) >= 2 /\ trimmed[2] = ":" THEN ParseAbsolute(trimmed)
  ELSE IF ParseAbsolute(manifestUrl) = <<>> THEN <<>>
  ELSE LET base == ParseAbsolute(manifestUrl)[1]
       IN IF trimmed[1] = "/" THEN <<SubSeq(base, 1, 5) \o trimmed>>
          ELSE <<Directory(base) \o trimmed>>

\* encodeURIComponent for one token: a delimiter is escaped, written as
\* the token '%' and the token of its two hex digits; the other tokens
\* consist of unreserved characters.
EncodeToken(t) ==
  CASE t = ":" -> <<"%", "3A">>
    [] t = "/" -> <<"%", "2F">>
    [] t = "?" -> <<"%", "3F">>
    [] t = "=" -> <<"%", "3D">>
    [] t = "%" -> <<"%", "25">>
    [] t = "#" -> <<"%", "23">>
    [] t = " " -> <<"%", "20">>
    [] t = CR -> <<"%", "0D">>
    [] t = LF -> <<"%", "0A">>
    [] OTHER -> <<t>>

RECURSIVE encodeURIComponent(_)
encodeURIComponent(text) ==
  IF text = <<>> THEN <<>>
  ELSE EncodeToken(text[1]) \o encodeURIComponent(Tail(text))

\* The callback of lines.map in rewriteManifest.
RewriteLine(line, manifestUrl, baseProxyUrl) ==
  LET trimmed == Trim(line)
  IN IF trimmed = <<>> \/ IsDirective(trimmed) THEN line
     ELSE LET absolute == Resolve(trimmed, manifestUrl)
          IN IF absolute = <<>> THEN line
             ELSE baseProxyUrl \o <<"/", "proxy", "?", "url", "=">>
                    \o encodeURIComponent(absolute[1])

rewriteManifest(manifestBody, manifestUrl, baseProxyUrl) ==
  LET lines == Split(manifestBody)
      rewritten == [i \in DOMAIN lines |->
                      RewriteLine(lines[i], manifestUrl, baseProxyUrl)]
  IN Join(rewritten, <<LF>>)

\* A manifest is rewritten.
Rewrite(manifestBody) ==
  /\ mpc = "none"
  /\ mpc' = "once"
  /\ mtext' = manifestBody
  /\ mout' = rewriteManifest(manifestBody, ManifestUrl, ProxyBase)
  /\ UNCHANGED mtwice
  /\ UNCHANGED <<ffVars, jobVars, regVars, hydVars, extVars>>

\* The result is rewritten with the same proxy base.
RewriteAgain ==
  /\ mpc = "once"
  /\ mpc' = "twice"
  /\ mtwice' = rewriteManifest(mout, ManifestUrl, ProxyBase)
  /\ UNCHANGED <<mtext, mout>>
  /\ UNCHANGED <<ffVars, jobVars, regVars, hydVars, extVars>>

InitRewrite ==
  /\ mpc = "none"
  /\ mtext = <<>>
  /\ mout = <<>>
  /\ mtwice = <<>>

NextRewrite ==
  \/ \E manifestBody \in Manifests : Rewrite(manifestBody)
  \/ RewriteAgain

(***************************************************************************)
(* NetworkDetector: sniffing the page's requests                           *)
(*                                                                         *)
(* A URL is a sequence of tokens, in lower case (the patterns ignore       *)
(* case); no token contains the text of another.                           *)
(***************************************************************************)
Urls ==
  { <<"master", ".m3u8">>, <<"playlist", ".m3u8">>, <<"index", ".m3u8">>,
    <<"v", ".m3u8", "?", "t">>,
    <<"chunklist", ".m3u8", "#", "a">>, <<"chunklist", ".m3u8", "#", "b">>,
    <<"manifest", ".mpd">>, <<"v", ".mpd">>, <<"v", ".mp4">>,
    <<"seg", ".ts">>, <<"master", ".m3u8", "/", "seg", ".ts">> }

\* /a\.ext/: the tokens of pat occur in url, one after the other.
Has(url, pat) ==
  \E i \in 1..Len(url) :
    /\ i + Len(pat) - 1 <= Len(url)
    /\ \A j \in 1..Len(pat) : url[i + j - 1] = pat[j]

\* /\.ext(\?|$)/
EndsWith(url, ext) ==
  \E i \in 1..Len(url) :
    url[i] = ext /\ (i = Len(url) \/ url[i + 1] = "?")

\* /a.*\.ext/
HasThen(url, a, ext) ==
  \E i \in 1..Len(url) : \E j \in (i + 1)..Len(url) :
    url[i] = a /\ url[j] = ext

\* The pattern table of onRequest, in its order.
Patterns ==
  << [re |-> "playlist", type |-> "hls", priority |-> 11],
     [re |-> "master", type |-> "hls", priority |-> 11],
     [re |-> "index", type |-> "hls", priority |-> 10],
     [re |-> ".m3u8", type |-> "hls", priority |-> 10],
     [re |-> "chunklist", type |-> "hls", priority |-> 8],
     [re |-> "manifest", type |-> "dash", priority |-> 10],
     [re |-> ".mpd", type |-> "dash", priority |-> 9],
     [re |-> ".mp4", type |-> "progressive", priority |-> 3] >>

\* regex.test(url) for the pattern named re.
Test(re, url) ==
  CASE re = "playlist" -> Has(url, <<"playlist", ".m3u8">>)
    [] re = "master" -> Has(url, <<"master", ".m3u8">>)
    [] re = "index" -> Has(url, <<"index", ".m3u8">>)
    [] re = ".m3u8" -> EndsWith(url, ".m3u8")
    [] re = "chunklist" -> HasThen(url, "chunklist", ".m3u8")
    [] re = "manifest" -> Has(url, <<"manifest", ".mpd">>)
    [] re = ".mpd" -> EndsWith(url, ".mpd")
    [] re = ".mp4" -> EndsWith(url, ".mp4")

\* /\.ts(\?|$)/: a segment file, skipped under every pattern.
IsSegment(url) == EndsWith(url, ".ts")

\* The pattern the loop of onRequest stores url under (0: none).
Match(url) ==
  IF IsSegment(url) \/ \A i \in 1..Len(Patterns) : ~Test(Patterns[i].re, url)
    THEN 0
    ELSE CHOOSE i \in 1..Len(Patterns) :
           /\ Test(Patterns[i].re, url)
           /\ \A j \in 1..(i - 1) : ~Test(Patterns[j].re, url)

\* onRequest without the branch for DASH.
ImmediateHlsOnly(type, priority) == priority >= 10 /\ type = "hls"

\* onRequest: the candidates that resolve the promise at once.
Immediate(type, priority) ==
  \/ priority >= 10 /\ type = "hls"
  \/ priority >= 9 /\ type = "dash"

\* this.streamCandidates.set(url, candidate): an entry of the same url is
\* replaced where it is, a new one is added last.
MapSet(map, candidate) ==
  IF \E i \in 1..Len(map) : map[i].url = candidate.url
    THEN [i \in 1..Len(map) |->
            IF map[i].url = candidate.url THEN candidate ELSE map[i]]
    ELSE Append(map, candidate)

NoResult == [url |-> <<>>, type |-> "none"]
Rejected == [url |-> <<>>, type |-> "error"]

\* The comparator of selectBestCandidate: a sorts before b.
Before(a, b) ==
  \/ a.priority > b.priority
  \/ a.priority = b.priority /\ a.timestamp < b.timestamp

\* The comparator of the progressive candidates.
Earlier(a, b) == a.timestamp < b.timestamp

\* sorted[0] of the (stable) sort of a non-empty array.
First(seq, Cmp(_, _)) ==
  seq[CHOOSE i \in 1..Len(seq) :
        /\ \A j \in 1..Len(seq) : ~Cmp(seq[j], seq[i])
        /\ \A j \in 1..(i - 1) : Cmp(seq[i], seq[j])]

IsProgressive(c) == c.type = "progressive"

NotProgressive(c) == c.type # "progressive"

\* NetworkDetector.selectBestCandidate (Rejected: null).
selectBestCandidate(candidates) ==
  LET sorted == SelectSeq(candidates, NotProgressive)
      progressiveSorted == SelectSeq(candidates, IsProgressive)
  IN IF candidates = <<>> THEN Rejected
     ELSE IF sorted = <<>>
       THEN IF progressiveSorted # <<>>
              THEN [url |-> First(progressiveSorted, Earlier).url,
                    type |-> First(progressiveSorted, Earlier).type]
              ELSE Rejected
       ELSE [url |-> First(sorted, Before).url,
             type |-> First(sorted, Before).type]

\* sniff: the candidates are cleared, the timer is set and the listener
\* attached.
Sniff ==
  /\ timer = "unset"
  /\ timer' = "pending"
  /\ streamCandidates' = <<>>
  /\ listenerRemoved' = FALSE
  /\ resolved' = FALSE
  /\ UNCHANGED <<sniffed, settled, clock, requested>>
  /\ UNCHANGED <<ffVars, jobVars, regVars, hydVars, rwVars, srvVars, hmVars, restVars>>

\* The candidate onRequest stores for url.
Candidate(url) ==
  [url |-> url, type |-> Patterns[Match(url)].type,
   priority |-> Patterns[Match(url)].priority, timestamp |-> clock]

\* The page issues a request for url.  onRequest runs while the listener is
\* attached: a url that matches is stored, and a high-priority HLS or DASH
\* candidate clears the timer, removes the listener and resolves.
Request(url) ==
  /\ requested < MaxRequests
  /\ requested' = requested + 1
  /\ IF timer = "pending" /\ ~listenerRemoved /\ ~resolved /\ Match(url) # 0
       THEN /\ streamCandidates' = MapSet(streamCandidates, Candidate(url))
            /\ IF Immediate(Candidate(url).type, Candidate(url).priority)
                 THEN /\ timer' = "cleared"
                      /\ listenerRemoved' = TRUE
                      /\ resolved' = TRUE
                      /\ sniffed' = [url |-> url, type |-> Candidate(url).type]
                      /\ settled' = settled + 1
                 ELSE UNCHANGED <<timer, listenerRemoved, resolved, sniffed,
                                  settled>>
       ELSE UNCHANGED <<timer, listenerRemoved, resolved, streamCandidates,
                        sniffed, settled>>
  /\ UNCHANGED clock
  /\ UNCHANGED <<ffVars, jobVars, regVars, hydVars, rwVars, srvVars, hmVars, restVars>>

\* The timer fires: the listener is removed and, unless resolved, the best
\* candidate is resolved with, or the promise rejected without one.
Timeout ==
  /\ timer = "pending"
  /\ timer' = "fired"
  /\ listenerRemoved' = TRUE
  /\ IF resolved
       THEN UNCHANGED <<resolved, sniffed, settled>>
       ELSE /\ resolved' = TRUE
            /\ sniffed' = selectBestCandidate(streamCandidates)
            /\ settled' = settled + 1
  /\ UNCHANGED <<streamCandidates, clock, requested>>
  /\ UNCHANGED <<ffVars, jobVars, regVars, hydVars, rwVars, srvVars, hmVars, restVars>>

\* A millisecond passes.
ClockAdvance ==
  /\ clock < MaxClock
  /\ clock' = clock + 1
  /\ UNCHANGED <<timer, listenerRemoved, resolved, streamCandidates, sniffed,
                 settled, requested>>
  /\ UNCHANGED <<ffVars, jobVars, regVars, hydVars, rwVars, srvVars, hmVars, restVars>>

InitSniff ==
  /\ timer = "unset"
  /\ listenerRemoved = FALSE
  /\ resolved = FALSE
  /\ streamCandidates = <<>>
  /\ sniffed = NoResult
  /\ settled = 0
  /\ clock = 0
  /\ requested = 0

NextSniff ==
  \/ Sniff
  \/ \E url \in Urls : Request(url)
  \/ Timeout
  \/ ClockAdvance

(***************************************************************************)
(* server.js: the routes                                                   *)
(***************************************************************************)
NoResponse == [route |-> "none", status |-> 0, body |-> <<>>]

\* A line of a playlist.
Line(kind, id, group, name) ==
  [kind |-> kind, id |-> id, group |-> group, name |-> name]

\* The playlist generatePlaylist returns before the streams are hydrated.
StillHydrating == <<Line("EXTM3U", "", "", ""), Line("hydrating", "", "", "")>>

\* The body of the 503 answer of GET /playlist.m3u8.
NotReadyBody == <<Line("EXTM3U", "", "", ""), Line("not ready", "", "", "")>>

\* generatePlaylist without its filter.
AnyValue(v) == TRUE

\* A value that JavaScript takes as true, among the values of a streamUrl
\* or a title.
Truthy(v) == v # Null /\ v # ""

\* The two lines generatePlaylist pushes for a channel: #EXTINF with
\* tvg-id, group-title and the title (or the category), then
\* baseUrl/hls/encodeURIComponent(id).
Entry(channel) ==
  << Line("EXTINF", channel.id, channel.category,
          IF Truthy(channel.title) THEN channel.title ELSE channel.category),
     Line("URL", channel.id, "", "") >>

RECURSIVE Entries(_)
Entries(chs) ==
  IF chs = <<>> THEN <<>>
  ELSE IF Truthy(Head(chs).streamUrl)
    THEN Entry(Head(chs)) \o Entries(Tail(chs))
    ELSE Entries(Tail(chs))

\* ChannelManager.generatePlaylist
generatePlaylist(chs, ready) ==
  IF ~ready THEN StillHydrating
  ELSE <<Line("EXTM3U", "", "", "")>> \o Entries(chs)

\* GET /playlist.m3u8
GetPlaylist ==
  /\ resp' = IF ~playlistReady
               THEN [route |-> "playlist", status |-> 503, body |-> NotReadyBody]
               ELSE [route |-> "playlist", status |-> 200,
                     body |-> generatePlaylist(channels, playlistReady)]
  /\ UNCHANGED <<pchannel, fold>>
  /\ UNCHANGED <<ffVars, jobVars, regVars, hydVars, rwVars, snVars, hmVars, restVars>>

\* job.workDir of the channel's job, as a text: /tmp/restream-ab
WorkDir == <<"/", "tmp", "/", "restream-ab">>

\* The tokens of req.params.segment, which Express has decoded once.
SegmentTokens == {"seg.ts", "..", "/", "%", "2F", "restream-ab", "x"}

Segments == UNION {[1..n -> SegmentTokens] : n \in 0..MaxSegment}

\* decodeURIComponent: an escape is the token '%' and the token of its two
\* hex digits; a '%' without them raises URIError (the text <<"URIError">>).
RECURSIVE decodeURIComponent(_)
decodeURIComponent(text) ==
  IF text = <<>> THEN <<>>
  ELSE IF text[1] # "%"
    THEN IF decodeURIComponent(Tail(text)) = <<"URIError">> THEN <<"URIError">>
         ELSE <<text[1]>> \o decodeURIComponent(Tail(text))
  ELSE IF Len(text) >= 2 /\ text[2] = "2F"
    THEN IF decodeURIComponent(SubSeq(text, 3, Len(text))) = <<"URIError">>
           THEN <<"URIError">>
           ELSE <<"/">> \o decodeURIComponent(SubSeq(text, 3, Len(text)))
  ELSE <<"URIError">>

\* The components of a path: the texts between its '/'.
RECURSIVE Components(_)
Components(text) ==
  IF \A i \in DOMAIN text : text[i] # "/" THEN <<text>>
  ELSE LET n == CHOOSE i \in DOMAIN text :
                  text[i] = "/" /\ \A j \in 1..(i - 1) : text[j] # "/"
       IN <<SubSeq(text, 1, n - 1)>> \o Components(SubSeq(text, n + 1, Len(text)))

\* The normalisation of path.resolve: an empty component and '.' are
\* dropped, '..' removes the component before it (none at the root).
RECURSIVE Normalize(_, _)
Normalize(done, rest) ==
  IF rest = <<>> THEN done
  ELSE IF Head(rest) = <<>> \/ Head(rest) = <<".">>
    THEN Normalize(done, Tail(rest))
  ELSE IF Head(rest) = <<"..">>
    THEN Normalize(IF done = <<>> THEN done
                   ELSE SubSeq(done, 1, Len(done) - 1), Tail(rest))
  ELSE Normalize(Append(done, Head(rest)), Tail(rest))

\* An absolute path of the given components, as a text.
RECURSIVE PathText(_)
PathText(components) ==
  IF components = <<>> THEN <<>>
  ELSE <<"/">> \o Head(components) \o PathText(Tail(components))

\* path.resolve(from, to), from absolute: to alone when it is absolute,
\* from/to otherwise, normalised; the root is '/'.
pathResolve(from, to) ==
  LET joined == IF to # <<>> /\ to[1] = "/" THEN to ELSE from \o <<"/">> \o to
      parts == Normalize(<<>>, Components(joined))
  IN IF parts = <<>> THEN <<"/">> ELSE PathText(parts)

\* The path text lies inside the directory prefix.
InsideDirectory(text, prefix) ==
  /\ Len(text) > Len(prefix)
  /\ SubSeq(text, 1, Len(prefix)) = prefix
  /\ text[Len(prefix) + 1] = "/"

\* String.prototype.startsWith
StartsWith(text, prefix) ==
  /\ Len(text) >= Len(prefix)
  /\ SubSeq(text, 1, Len(prefix)) = prefix

\* GET /hls/:id/local/:segment for a channel id.  Every channel is a restream
\* channel; getTransmuxJob finds the restreamer's job of the id; exists: a
\* file is at the resolved path (the job's directory itself is no file).
\* The first request of a run is followed.
GetSegment(id, segment, exists) ==
  /\ resp = NoResponse
  /\ resp' =
       IF id \notin Ids(channels)
         THEN [route |-> "segment", status |-> 404, body |-> <<>>]
       ELSE IF rjobs[id] = "none"
         THEN [route |-> "segment", status |-> 404, body |-> <<>>]
       ELSE IF decodeURIComponent(segment) = <<"URIError">>
         THEN [route |-> "segment", status |-> 500, body |-> <<>>]
       ELSE LET target == pathResolve(WorkDir, decodeURIComponent(segment))
            IN IF ~StartsWith(target, WorkDir)
                 THEN [route |-> "segment", status |-> 400, body |-> <<>>]
               ELSE IF exists /\ target # WorkDir
                 THEN [route |-> "segment", status |-> 200, body |-> target]
               ELSE [route |-> "segment", status |-> 404, body |-> <<>>]
  /\ UNCHANGED <<pchannel, fold>>
  /\ UNCHANGED <<ffVars, jobVars, regVars, hydVars, rwVars, snVars, hmVars, restVars>>

\* A Set-Cookie header 'name=value; attributes', and a cookie 'name=value'
\* of a channel, by the two parts that split(';') and split('=') tell
\* apart; the name is '' in a header that is empty or starts with '='.
SetCookies ==
  { [name |-> "sid", value |-> "1"], [name |-> "sid", value |-> "2"],
    [name |-> "region", value |-> "us"], [name |-> "tz", value |-> "utc"],
    [name |-> "", value |-> "x"] }

Batches == UNION {[1..n -> SetCookies] : n \in 0..MaxBatch}

\* cookieMap.set on an array instead of a map: always added last.
CookieAppend(map, cookie) ==
  IF cookie.name = "" THEN map ELSE Append(map, cookie)

\* cookieMap.set(name, cookie): the entry of the name is replaced where it
\* is, a new one is added last; an empty name is skipped.
CookieSet(map, cookie) ==
  IF cookie.name = "" THEN map
  ELSE IF \E i \in 1..Len(map) : map[i].name = cookie.name
    THEN [i \in 1..Len(map) |->
            IF map[i].name = cookie.name THEN cookie ELSE map[i]]
  ELSE Append(map, cookie)

RECURSIVE SetAll(_, _)
SetAll(map, cookies) ==
  IF cookies = <<>> THEN map
  ELSE SetAll(CookieSet(map, Head(cookies)), Tail(cookies))

\* entries.slice(0, MaxCookies) when the map has more entries.
CappedFirst(map) ==
  IF Len(map) > MaxCookies THEN SubSeq(map, 1, MaxCookies) ELSE map

\* entries.slice(-MaxCookies) when the map has more entries.
Capped(map) ==
  IF Len(map) > MaxCookies
    THEN SubSeq(map, Len(map) - MaxCookies + 1, Len(map))
    ELSE map

\* ChannelManager.updateCookies: the new value of channel.cookies.
updateCookies(cookies, setCookieHeaders) ==
  IF setCookieHeaders = <<>> THEN cookies
  ELSE Capped(SetAll(SetAll(<<>>, cookies), setCookieHeaders))

\* What the upstream does with a request: no answer (a network failure), or
\* an answer with a status and Set-Cookie headers.
Upstreams ==
  {[status |-> 0, setCookie |-> <<>>]} \cup
  [status : {200, 403, 404, 500, 503}, setCookie : {b \in Batches : Len(b) <= 1}]

\* axios.get with validateStatus: it throws without an answer and on a
\* status that is not in 200..499.
Throws(upstream) == ~(upstream.status >= 200 /\ upstream.status < 500)

\* handleHlsResponse with fetchStream, for the channel object: the answer's
\* Set-Cookie headers are folded into channel.cookies and its body is sent
\* (with status 200); 502 when axios throws.
ProxyRequest(upstream) ==
  /\ IF Throws(upstream)
       THEN /\ resp' = [route |-> "proxy", status |-> 502, body |-> <<>>]
            /\ UNCHANGED pchannel
       ELSE /\ resp' = [route |-> "proxy", status |-> 200,
                        body |-> <<upstream.status>>]
            /\ pchannel' = [pchannel EXCEPT !.cookies =
                              updateCookies(@, upstream.setCookie)]
  /\ UNCHANGED fold
  /\ UNCHANGED <<ffVars, jobVars, regVars, hydVars, rwVars, snVars, hmVars, restVars>>

NoFold == [a |-> <<>>, b |-> <<>>, from |-> <<>>, ab |-> <<>>, ba |-> <<>>]

\* Two fetches of the channel end one after the other: the batches a and b
\* are folded into the channel's cookies, in the one order and in the other.
\* The first pair of a run is followed.
UpdateBoth(a, b) ==
  /\ fold = NoFold
  /\ a # <<>> /\ b # <<>>
  /\ fold' = [a |-> a, b |-> b, from |-> pchannel.cookies,
              ab |-> updateCookies(updateCookies(pchannel.cookies, a), b),
              ba |-> updateCookies(updateCookies(pchannel.cookies, b), a)]
  /\ UNCHANGED <<resp, pchannel>>
  /\ UNCHANGED <<ffVars, jobVars, regVars, hydVars, rwVars, snVars, hmVars, restVars>>

InitServer ==
  /\ resp = NoResponse
  /\ pchannel = [streamUrl |-> "manifest", cookies |-> <<>>,
                 requestHeaders |-> "Referer"]
  /\ fold = NoFold

\* Proxied requests for one channel.
NextProxy ==
  \E upstream \in Upstreams : ProxyRequest(upstream)

\* A proxied request made before the two batches arrive.
EarlierRequest(upstream) == fold = NoFold /\ ProxyRequest(upstream)

\* Proxied requests for one channel, then two batches of cookies, the
\* second of one header.
NextCookies ==
  \/ \E upstream \in Upstreams : EarlierRequest(upstream)
  \/ \E a \in Batches, b \in {c \in Batches : Len(c) <= 1} : UpdateBoth(a, b)

\* The reconcile passes of at most one event and the restream jobs, with
\* requests for segments.
NextSegment ==
  \/ \E events \in {es \in FootballLists : Len(es) <= 1} :
       BuildChannels(events, {})
  \/ HydrateChannel(1)
  \/ \E id \in ChannelIds, segment \in Segments, exists \in BOOLEAN :
       GetSegment(id, segment, exists)

\* The reconcile passes and hydrateStreams, with requests for the playlist.
NextPlaylist ==
  \/ \E events \in FootballLists : BuildChannels(events, {})
  \/ HydrateStreams
  \/ \E w \in HWorkers : HJobReady(w)
  \/ \E w \in HWorkers : HJobFail(w, FALSE)
  \/ \E w \in HWorkers : HKilled(w)
  \/ \E id \in ChannelIds : CleanupDone(id)
  \/ GetPlaylist

InitOrchestrator ==
  /\ activeCount = 0
  /\ queue = <<>>
  /\ processes = [c \in Channels |-> NoWrapper]
  /\ nextId = 0
  /\ chan = [w \in Wrappers |-> "none"]
  /\ spc = [w \in Wrappers |-> "idle"]
  /\ state = [w \in Wrappers |-> "none"]
  /\ proc = [w \in Wrappers |-> "none"]
  /\ killed = [w \in Wrappers |-> FALSE]
  /\ manifest = [w \in Wrappers |-> FALSE]
  /\ hmTimer = [w \in Wrappers |-> FALSE]
  /\ kpc = [w \in Wrappers |-> "none"]
  /\ released = [w \in Wrappers |-> 0]
  /\ headServed = FALSE

\* ---------------------------------------------------------------------
\* PlayerDetector: the player adapters run against one page.

\* The adapters in the order StreamManager registers them, by their names.
playerAdapters ==
  <<"jPlayer", "JWPlayer", "VideoJS", "Flowplayer", "Clappr", "Bitmovin",
    "HTML5Video">>

\* A promise that has not resolved, and a null result.
Pending == [type |-> "pending", player |-> ""]
NoDetection == [type |-> "null", player |-> ""]

\* The stream types an adapter's detect can return: JWPlayer and HTML5Video
\* fall back to their first candidate when none is hls or dash, the other
\* adapters return hls and dash streams only.
Detects(name) ==
  IF name \in {"JWPlayer", "HTML5Video"}
  THEN {"hls", "dash", "progressive"}
  ELSE {"hls", "dash"}

\* tryAdapter: one adapter's promise resolves, with the detection tagged with
\* the adapter's name or with null (nothing detected, or the adapter threw).
\* The promises resolve in any order.
TryAdapter(i) ==
  /\ results[i] = Pending
  /\ \E type \in Detects(playerAdapters[i]) \cup {"null"} :
       results' = [results EXCEPT ![i] =
                     IF type = "null"
                     THEN NoDetection
                     ELSE [type |-> type, player |-> playerAdapters[i]]]
  /\ UNCHANGED inspected
  /\ UNCHANGED <<ffVars, jobVars, regVars, hydVars, rwVars, snVars, srvVars,
                 hmVars, ovVars, capVars>>

\* inspect, once Promise.allSettled has every result: the first result in
\* the adapters' order that is not null, or null.
Inspect ==
  /\ inspected = Pending
  /\ \A i \in DOMAIN results : results[i] # Pending
  /\ LET found == {i \in DOMAIN results : results[i] # NoDetection}
     IN  inspected' =
           IF found = {}
           THEN NoDetection
           ELSE results[CHOOSE i \in found : \A j \in found : i <= j]
  /\ UNCHANGED results
  /\ UNCHANGED <<ffVars, jobVars, regVars, hydVars, rwVars, snVars, srvVars,
                 hmVars, ovVars, capVars>>

InitPlayers ==
  /\ results = [i \in DOMAIN playerAdapters |-> Pending]
  /\ inspected = Pending

\* ---------------------------------------------------------------------
\* StreamPipeline and BrowserStreamCapture: one capture job.

beyondCapture ==
  <<ffVars, jobVars, regVars, hydVars, rwVars, snVars, srvVars, hmVars,
    ovVars, pdVars>>

\* capture.start up to its last await: the screencast listener is attached
\* and the screencast started, the audio poll is set up; isCapturing is
\* still false.  The page is taken to load and to have a media element.
StartCapture ==
  /\ ppc = "start"
  /\ ppc' = "screencast"
  /\ browser' = "open"
  /\ audioInterval' = TRUE
  /\ UNCHANGED <<isRunning, isCapturing, isPaused, frameCount, stdin,
                 transcoder, delivered, acked, harvested, refused, emitted,
                 piped, tornDown>>
  /\ UNCHANGED beyondCapture

\* capture.start returns and StreamPipeline.start goes on after it.
CaptureStarted ==
  /\ ppc = "screencast"
  /\ ppc' = "running"
  /\ isCapturing' = TRUE
  /\ isRunning' = TRUE
  /\ UNCHANGED <<isPaused, frameCount, audioInterval, stdin, browser,
                 transcoder, delivered, acked, harvested, refused, emitted,
                 piped, tornDown>>
  /\ UNCHANGED beyondCapture

\* The capture left as it is whatever write returns.
PausedNever(canWrite) == isPaused

\* capture.pause() when the write was refused.
PausedAfter(canWrite) == isPaused \/ ~canWrite

\* The pipeline's listener for 'frame': nothing unless the job is running;
\* else the frame is written, and when write returns false the capture is
\* paused and a once listener for drain is registered.
OnFrame(canWrite) ==
  IF ~isRunning
  THEN UNCHANGED <<isPaused, stdin, refused, emitted, piped>>
  ELSE /\ piped' = [piped EXCEPT !.frames = @ + 1]
       /\ emitted' = [emitted EXCEPT !.frames = @ + 1]
       /\ isPaused' = PausedAfter(canWrite)
       /\ refused' = IF canWrite THEN refused ELSE refused + 1
       /\ stdin' = IF canWrite
                     THEN stdin
                     ELSE [stdin EXCEPT !.needDrain = TRUE,
                                        !.listeners = @ + 1]

\* The listener for Page.screencastFrame.  fast: the frame comes sooner
\* than 0.8 of the frame interval after the last one that was emitted;
\* canWrite: what stdin.write returns for it.
ScreencastFrame(fast, canWrite) ==
  /\ ppc \in {"screencast", "running", "closing"}
  /\ delivered < MaxFrames
  /\ fast => frameCount > 0
  /\ delivered' = delivered + 1
  /\ IF ~isCapturing \/ isPaused
       THEN UNCHANGED <<acked, frameCount, isPaused, stdin, refused, emitted,
                        piped>>
       ELSE IF fast
         THEN /\ acked' = acked + 1
              /\ UNCHANGED <<frameCount, isPaused, stdin, refused, emitted,
                             piped>>
         ELSE /\ frameCount' = frameCount + 1
              /\ OnFrame(canWrite)
              /\ acked' = acked + 1
  /\ UNCHANGED <<ppc, isRunning, isCapturing, audioInterval, browser,
                 transcoder, harvested, tornDown>>
  /\ UNCHANGED beyondCapture

\* A tick of the audio poll that finds a chunk in the page: nothing unless
\* capturing and not paused; else audioChunk is emitted, for which the
\* pipeline has no listener.
AudioPoll ==
  /\ audioInterval
  /\ harvested < MaxChunks
  /\ ~(~isCapturing \/ isPaused)
  /\ harvested' = harvested + 1
  /\ emitted' = IF isRunning
                  THEN [emitted EXCEPT !.chunks = @ + 1]
                  ELSE emitted
  /\ UNCHANGED <<ppc, isRunning, isCapturing, isPaused, frameCount,
                 audioInterval, stdin, browser, transcoder, delivered, acked,
                 refused, piped, tornDown>>
  /\ UNCHANGED beyondCapture

\* stdin emits drain (a write had returned false, the buffer has emptied,
\* end was not called): the once listeners run and resume the capture when
\* the job is running.
StdinDrain ==
  /\ stdin.needDrain
  /\ ~stdin.ended /\ ~stdin.destroyed
  /\ stdin' = [stdin EXCEPT !.needDrain = FALSE, !.listeners = 0]
  /\ isPaused' = IF stdin.listeners > 0 /\ isRunning THEN FALSE ELSE isPaused
  /\ UNCHANGED <<ppc, isRunning, isCapturing, frameCount, audioInterval,
                 browser, transcoder, delivered, acked, harvested, refused,
                 emitted, piped, tornDown>>
  /\ UNCHANGED beyondCapture

\* StreamPipeline.stop up to the first await of capture.stop.
StopPipeline ==
  /\ ppc = "running"
  /\ ppc' = "closing"
  /\ isRunning' = FALSE
  /\ isCapturing' = FALSE
  /\ audioInterval' = FALSE
  /\ UNCHANGED <<isPaused, frameCount, stdin, browser, transcoder, delivered,
                 acked, harvested, refused, emitted, piped, tornDown>>
  /\ UNCHANGED beyondCapture

\* The screencast is stopped, the session detached and the browser closed.
BrowserClosed ==
  /\ ppc = "closing"
  /\ ppc' = "closed"
  /\ browser' = "closed"
  /\ tornDown' = Append(tornDown, "browser")
  /\ UNCHANGED <<isRunning, isCapturing, isPaused, frameCount, audioInterval,
                 stdin, transcoder, delivered, acked, harvested, refused,
                 emitted, piped>>
  /\ UNCHANGED beyondCapture

\* capture.stop goes on after browser.close: it emits 'stopped', whose
\* listener ends stdin unless it is destroyed; stop then calls
\* ffmpegManager.kill, which signals the transcoder if it has not exited.
CaptureStopped ==
  /\ ppc = "closed"
  /\ ppc' = "killing"
  /\ stdin' = IF stdin.destroyed THEN stdin ELSE [stdin EXCEPT !.ended = TRUE]
  /\ transcoder' = IF transcoder = "running" THEN "signalled" ELSE transcoder
  /\ tornDown' = tornDown
                   \o (IF stdin.destroyed THEN <<>> ELSE <<"end">>)
                   \o (IF transcoder = "running" THEN <<"signal">> ELSE <<>>)
  /\ UNCHANGED <<isRunning, isCapturing, isPaused, frameCount, audioInterval,
                 browser, delivered, acked, harvested, refused, emitted,
                 piped>>
  /\ UNCHANGED beyondCapture

\* kill has returned, the work directory is removed and the job deleted.
StopReturns ==
  /\ ppc = "killing"
  /\ ppc' = "stopped"
  /\ UNCHANGED <<isRunning, isCapturing, isPaused, frameCount, audioInterval,
                 stdin, browser, transcoder, delivered, acked, harvested,
                 refused, emitted, piped, tornDown>>
  /\ UNCHANGED beyondCapture

\* The transcoder exits, on its own or after the signal: its stdin is
\* destroyed and the pipeline's listener for 'exit' clears job.isRunning.
TranscoderExit ==
  /\ ppc # "start"
  /\ transcoder # "exited"
  /\ transcoder' = "exited"
  /\ stdin' = [stdin EXCEPT !.destroyed = TRUE]
  /\ isRunning' = FALSE
  /\ tornDown' = Append(tornDown, "exit")
  /\ UNCHANGED <<ppc, isCapturing, isPaused, frameCount, audioInterval,
                 browser, delivered, acked, harvested, refused, emitted,
                 piped>>
  /\ UNCHANGED beyondCapture

\* The job before capture.start: the transcoder has been spawned with its
\* stdin open, the capture is constructed and its listeners are attached.
InitCapture ==
  /\ ppc = "start"
  /\ isRunning = FALSE
  /\ isCapturing = FALSE
  /\ isPaused = FALSE
  /\ frameCount = 0
  /\ audioInterval = FALSE
  /\ stdin = [needDrain |-> FALSE, listeners |-> 0, ended |-> FALSE,
              destroyed |-> FALSE]
  /\ browser = "none"
  /\ transcoder = "running"
  /\ delivered = 0
  /\ acked = 0
  /\ harvested = 0
  /\ refused = 0
  /\ emitted = [frames |-> 0, chunks |-> 0]
  /\ piped = [frames |-> 0, chunks |-> 0]
  /\ tornDown = <<>>

Init ==
  InitOrchestrator /\ InitJobs /\ InitRegistry /\ InitRewrite /\ InitSniff
  /\ InitServer /\ InitHealth /\ InitOverlap /\ InitPlayers /\ InitCapture

\* The spawn calls for one channel id, with the transcoders' output and the
\* health checks; no process exits.
NextHealth ==
  \/ \E c \in OneChannel : Spawn(c)
  \/ \E w \in Wrappers : ManifestWritten(w)
  \/ \E w \in Wrappers : StatDone(w)
  \/ \E w \in Wrappers, message \in Messages : Stdout(w, message)
  \/ \E w \in Wrappers, message \in Messages : Stderr(w, message)
  \/ \E w \in Wrappers : Check(w)

SpecHealth == Init /\ [][NextHealth]_vars

\* The orchestrator with spawn and kill calls for two channel ids.
NextOrchestrator ==
  \/ \E c \in Channels : Spawn(c)
  \/ \E w \in Wrappers : ManifestWritten(w)
  \/ \E w \in Wrappers : StatDone(w)
  \/ \E w \in Wrappers, expired \in BOOLEAN : SleepDone(w, expired)
  \/ \E w \in Wrappers, signal \in BOOLEAN : ProcExit(w, signal)
  \/ \E w \in Wrappers : ProcError(w)
  \/ \E w \in Wrappers, bad \in BOOLEAN : HealthCheck(w, bad)
  \/ \E c \in Channels : KillStart(c)
  \/ \E w \in Wrappers : KillTimeout(w)

SpecOrchestrator == Init /\ [][NextOrchestrator]_vars

\* Every caller of acquire and release (spawn, its failure path, the exit
\* listener, kill), for one channel id; the processes that exit are ended
\* by a signal, and the health checks, which read and write the wrapper's
\* state only, are left out.
NextMonitor ==
  \/ \E c \in OneChannel : Spawn(c)
  \/ \E w \in Wrappers : ManifestWritten(w)
  \/ \E w \in Wrappers : StatDone(w)
  \/ \E w \in Wrappers, expired \in BOOLEAN : SleepDone(w, expired)
  \/ \E w \in Wrappers : ProcExit(w, TRUE)
  \/ \E w \in Wrappers : ProcError(w)
  \/ \E c \in OneChannel : KillStart(c)
  \/ \E w \in Wrappers : KillTimeout(w)

SpecMonitor == Init /\ [][NextMonitor]_vars

SpecJobs == Init /\ [][NextJobs]_vars

\* The steps of a call that wait for the file system or for a timer are
\* taken.
JobStepsFair ==
  \A k \in Calls :
    /\ WF_vars(RCheck(k))
    /\ WF_vars(SpawnChild(k))
    /\ WF_vars(Ready(k))
    /\ WF_vars(RTimeout(k))
    /\ WF_vars(TTimeout(k))
    /\ WF_vars(TCleaned(k))
    /\ WF_vars(CleanupRemoved(k))

\* Moreover, a child that has been sent SIGTERM exits.
JobsFair ==
  /\ JobStepsFair
  /\ \A k \in Calls : WF_vars(ckilled[k] /\ \E ok \in BOOLEAN : ChildExit(k, ok))

SpecJobsFair == SpecJobs /\ JobsFair

\* The job managers with children that may ignore SIGTERM.
SpecJobsStubborn == SpecJobs /\ JobStepsFair

SpecRegistry == Init /\ [][NextRegistry]_vars

SpecEviction == Init /\ [][NextEviction]_vars

SpecHydration == Init /\ [][NextHydration]_vars

\* What an awaited ensureJob or cleanupJob waits for comes about: a spawned
\* process yields its manifest, runs into the timeout or goes away, and a
\* process that has been sent SIGTERM exits.
HydrationFair ==
  /\ \A w \in HWorkers :
       /\ WF_vars(HJobReady(w) \/ \E gone \in BOOLEAN : HJobFail(w, gone))
       /\ WF_vars(HKilled(w))
  /\ \A id \in ChannelIds : WF_vars(CleanupDone(id))

SpecHydrationFair == SpecHydration /\ HydrationFair

SpecRewrite == Init /\ [][NextRewrite]_vars

SpecSniff == Init /\ [][NextSniff]_vars

SpecPlaylist == Init /\ [][NextPlaylist]_vars

SpecSegment == Init /\ [][NextSegment]_vars

SpecProxy == Init /\ [][NextProxy]_vars

SpecCookies == Init /\ [][NextCookies]_vars

SpecPool == Init /\ [][NextPool]_vars

SpecOverlap == Init /\ [][NextOverlap]_vars

\* One inspect call.
NextPlayers ==
  \/ \E i \in DOMAIN playerAdapters : TryAdapter(i)
  \/ Inspect

SpecPlayers == Init /\ [][NextPlayers]_vars

\* One capture job from its start to the end of stop, with the frames, the
\* audio polls, stdin's drains and the transcoder's exit.
NextCapture ==
  \/ StartCapture
  \/ CaptureStarted
  \/ \E fast, canWrite \in BOOLEAN : ScreencastFrame(fast, canWrite)
  \/ AudioPoll
  \/ StdinDrain
  \/ StopPipeline
  \/ BrowserClosed
  \/ CaptureStopped
  \/ StopReturns
  \/ TranscoderExit

SpecCapture == Init /\ [][NextCapture]_vars

(***************************************************************************)
(* Properties of the orchestrator                                          *)
(***************************************************************************)
HasSlot(w) == spc[w] \notin {"idle", "queued"}

\* C3: in GlobalResourceMonitor activeCount never exceeds maxConcurrent,
\* whatever the interleaving of the acquire and release calls of spawn, kill
\* and the exit handlers.
ActiveCountWithinMax == activeCount <= maxConcurrent

\* All slots are taken, a spawn call waits, and slots have been released.
FullAfterRelease ==
  /\ activeCount = maxConcurrent
  /\ Len(queue) > 0
  /\ \E w \in Wrappers : released[w] > 0

\* C4: release with a non-empty queue hands the slot at once to the waiter
\* that called acquire first: the queue keeps the waiters in the order of
\* their acquire calls (the order of the spawn calls), no call, queued or
\* not, has obtained a slot while an earlier call is still waiting, and no
\* slot is free while a call waits.
FifoGrant ==
  /\ \A i, j \in 1..Len(queue) : i < j => queue[i] < queue[j]
  /\ \A w \in Wrappers : HasSlot(w) => \A i \in 1..Len(queue) : w < queue[i]
  /\ Len(queue) > 0 => activeCount = maxConcurrent

\* Two spawn calls were waiting; the first has been resumed by a release and
\* the second still waits.
ResumedAheadOfLaterWaiter ==
  /\ headServed
  /\ Len(queue) > 0
  /\ \E w \in Wrappers : HasSlot(w) /\ released[w] > 0

\* C5: the slot acquired for a transcoder process is released exactly once,
\* when the process exits, whatever the exit reason: never twice, and once
\* when the process is gone and its spawn and kill calls have returned.
Settled(w) ==
  /\ proc[w] \in {"exited", "failed"}
  /\ spc[w] \in {"started", "failed"}
  /\ kpc[w] # "waiting"

SlotReleasedExactlyOnce ==
  \A w \in Wrappers :
    /\ released[w] <= 1
    /\ Settled(w) => released[w] = 1

\* C6: no more than maxConcurrent transcoder processes started by spawn are
\* alive: a spawn call issued while maxConcurrent processes are alive
\* launches its process only after one of them has exited.
AliveWithinMax ==
  Cardinality({w \in Wrappers : proc[w] = "alive"}) <= maxConcurrent

\* C7: once a ProcessWrapper's state is crashed or killed it never changes.
TerminalIsFinal ==
  [][\A w \in Wrappers : state[w] \in Terminal => state'[w] = state[w]]_vars

\* C8: ProcessWrapper.kill sends SIGKILL when the process has not exited by
\* the end of the wait: no kill has ended its wait by timeout, with the
\* process still running, without sending SIGKILL.
KillEscalates == \A w \in Wrappers : kpc[w] # "gaveUp"

(***************************************************************************)
(* Properties of the job managers                                          *)
(***************************************************************************)
Spawned(k) == cproc[k] # "none"

\* C1: of two ensureJob calls for the same channel id, the second made
\* while the first is in progress, only one spawns a worker process, and
\* both return the same job.
SingleFlight ==
  \A k2 \in Calls : \A k1 \in during[k2] :
    /\ ~(Spawned(k1) /\ Spawned(k2))
    /\ calls[k1].pc = "done" /\ calls[k2].pc = "done"
         => calls[k1].result = calls[k2].result

LiveProcesses(c) == {k \in Calls : calls[k].ch = c /\ cproc[k] = "alive"}

\* C2: after any sequence of ensureJob and cleanupJob calls on a job
\* manager, each made after the one before has returned or failed, at most
\* one process started for a channel id is alive.
OneLiveProcessPerChannel ==
  ~overlap => \A c \in Channels : Cardinality(LiveProcesses(c)) <= 1

RemovedAreGone ==
  \A r \in DOMAIN removedIds :
    /\ removedIds[r] \notin Ids(channels)
    /\ rjobs[removedIds[r]] # "running"

\* C11: the counts of a reconcile pass add up to the size of the registry
\* it leaves, added + updated = number of channels, with updated the number
\* of events whose id was registered before the pass and added the number
\* of those whose id was not; a pass over two events of which one was
\* registered, made before any channel expires, reports added 1, updated
\* 1, removed 0.
CountsAddUp ==
  /\ counts.added + counts.updated = Len(channels)
  /\ counts.updated =
       Cardinality({i \in DOMAIN channels : channels[i].id \in prevIds})
  /\ counts.added =
       Cardinality({i \in DOMAIN channels : channels[i].id \notin prevIds})
  /\ (/\ Len(channels) = 2
      /\ Cardinality(prevIds) = 1
      /\ prevIds \subseteq Ids(channels)
      /\ Cardinality(Ids(channels)) = 2
      /\ now = 0)
       => counts = [added |-> 1, updated |-> 1] /\ Len(removedIds) = 0

\* A pass found one of its two events registered and the other not.
OneAddedOneUpdated ==
  /\ Len(channels) = 2
  /\ Cardinality(prevIds) = 1
  /\ prevIds \subseteq Ids(channels)
  /\ Cardinality(Ids(channels)) = 2
  /\ counts = [added |-> 1, updated |-> 1]

\* C12: when a registered channel's embedUrl differs from the embedUrl of
\* the event with the same id, the channel the reconcile pass makes of the
\* event has a null streamUrl and no cookies.
EmbedChangeResets ==
  \A channel \in rebuilt : channel.streamUrl = Null /\ channel.cookies = {}

\* The concatenation of the tokens of a text.
RECURSIVE Text(_)
Text(tokens) ==
  IF tokens = <<>> THEN "" ELSE tokens[1] \o Text(Tail(tokens))

\* C13: rewriting the output of rewriteManifest again, with the same proxy
\* base, leaves every line as it is.
RewriteIdempotent ==
  mpc = "twice" => Split(mtwice) = Split(mout)

\* The line is blank or a directive.
Kept(line) == Trim(line) = <<>> \/ IsDirective(Trim(line))

\* C14: rewriteManifest leaves the blank lines and the directive lines as
\* they are and replaces every other line by the proxy base, '/proxy?url='
\* and the percent-encoded absolute URL the line resolves to against the
\* source URL; line 'seg0.ts' of https://cdn/x/index.m3u8 with proxy base
\* https://me/hls/c1 becomes
\* https://me/hls/c1/proxy?url=https%3A%2F%2Fcdn%2Fx%2Fseg0.ts.
RewriteByLine ==
  mpc # "none" =>
    /\ Len(Split(mout)) = Len(Split(mtext))
    /\ \A i \in DOMAIN Split(mtext) :
         LET line == Split(mtext)[i]
             out == Split(mout)[i]
         IN /\ Kept(line) => out = line
            /\ ~Kept(line) =>
                 /\ Resolve(Trim(line), ManifestUrl) # <<>>
                 /\ out = ProxyBase \o <<"/", "proxy", "?", "url", "=">>
                            \o encodeURIComponent(Resolve(Trim(line), ManifestUrl)[1])
            /\ line = <<"seg0.ts">> =>
                 Text(out) = "https://me/hls/c1/proxy?url=https%3A%2F%2Fcdn%2Fx%2Fseg0.ts"

\* C15: every line of rewriteManifest's output that is neither blank nor a
\* directive is a URL under the proxy base.
OutputUnderProxyBase ==
  mpc # "none" =>
    \A i \in DOMAIN Split(mout) :
      LET out == Split(mout)[i]
      IN ~Kept(out) =>
           /\ Len(out) > Len(ProxyBase)
           /\ SubSeq(out, 1, Len(ProxyBase) + 1) = ProxyBase \o <<"/">>

\* C16: a hydrateStreams call goes through every channel and returns with
\* playlistReady = true, whichever of its channels fail (the job cannot be
\* made, its process exits or yields no manifest).
HydrationCompletes ==
  running ~> (~running /\ playlistReady)

\* C17: every ensureJob call returns a job or fails in the end, whatever
\* its child does: it writes the manifest, never writes it, exits before
\* the manifest is there, or cannot be started.
JobCreationEnds ==
  \A k \in Calls : InFlight(k) ~> ~InFlight(k)

\* C18: when the manifest is not there in time, the ensureJob call fails
\* and nothing of the attempt is left: the process it spawned is not
\* running and its work directory is removed.
ReleasedOnFailure ==
  \A k \in Calls :
    calls[k].pc = "failed" => cproc[k] # "alive" /\ cdir[k] # "made"

\* C19: cleanupJob removes the job's work directory once the job's process
\* has completed, and with it the job's entry in the map.
CleanupAfterCompletion ==
  [][\A j \in Calls :
       cdir[j] = "made" /\ cdir'[j] = "removed"
         => cproc[j] = "exited" /\ jobs'[calls[j].ch] = NoJob]_vars

\* C20: a cleanupJob call ends, with the job's process no longer running,
\* even when the process ignores SIGTERM: a forceful kill follows the
\* graceful signal after a bounded time.
KillWithinGrace ==
  \A j \in Calls :
    clpc[j] \notin {"none", "done"} ~> (clpc[j] = "done" /\ cproc[j] # "alive")

\* C21: an ensureJob call never returns an existing job whose process has
\* terminated; such a job is evicted and a fresh one is made.
DeadJobNotReturned ==
  [][\A k \in Calls :
       calls[k].pc # "done" /\ calls'[k].pc = "done" /\ calls'[k].result # k
         => cproc[calls'[k].result] = "alive"]_vars

\* C22: an ensureJob call is given an existing job only if that job was made
\* for the source the call passes (a job made for another source is evicted
\* and made anew), and a call makes a new job only when the channel id has
\* no job stored.
SameSourceReuse ==
  [][\A k \in Calls :
       /\ calls[k].pc # "done" /\ calls'[k].pc = "done" /\ calls'[k].result # k
            => calls'[calls'[k].result].src = calls'[k].src
       /\ calls[k].pc # "mkdir" /\ calls'[k].pc = "mkdir"
            => jobs'[calls'[k].ch] = NoJob]_vars

(***************************************************************************)
(* Properties of the network detector                                      *)
(***************************************************************************)
\* A manifest-class URL: one that is stored with a priority of at least 10.
ManifestClass(url) == Match(url) # 0 /\ Patterns[Match(url)].priority >= 10

\* The request for url made now is the one that settles the sniff, and
\* settles it with the given type.
ResolvesAt(url, type) ==
  /\ timer' = "cleared"
  /\ sniffed' = [url |-> url, type |-> type]

\* The sniff is settled at most once, and no candidate is recorded after it.
SettledOnce ==
  /\ settled' <= 1
  /\ resolved => streamCandidates' = streamCandidates

\* C23: a request for a manifest-class URL made while the sniff is waiting
\* resolves it at that request with that url and type hls, before the
\* timeout; the sniff is settled once, and records no candidate afterwards.
ManifestResolvesAsHls ==
  [][/\ \A url \in Urls :
          Request(url) /\ timer = "pending" /\ ManifestClass(url)
            => ResolvesAt(url, "hls")
     /\ SettledOnce]_vars

\* C23, amended: the type is the one of the matched pattern, hls for a
\* .m3u8 manifest and dash for manifest.mpd.
ManifestResolvesAtOnce ==
  [][/\ \A url \in Urls :
          Request(url) /\ timer = "pending" /\ ManifestClass(url)
            => ResolvesAt(url, IF Has(url, <<".mpd">>) THEN "dash" ELSE "hls")
     /\ SettledOnce]_vars

DashResolvedAtRequest ==
  /\ timer = "cleared"
  /\ settled = 1
  /\ sniffed = [url |-> <<"manifest", ".mpd">>, type |-> "dash"]

\* The recorded candidates that are not progressive, by their place in the
\* order they were first seen in.
NonProgressive == {i \in 1..Len(streamCandidates) :
                     streamCandidates[i].type # "progressive"}

\* C30: when the timeout elapses, the sniff resolves with the non-progressive
\* candidate of the highest priority, the earliest seen of those on a tie;
\* with a progressive candidate only if no other was recorded; and it fails
\* if no candidate was recorded.
TimeoutPicksBest ==
  [][Timeout /\ ~resolved =>
       IF streamCandidates = <<>> THEN sniffed' = Rejected
       ELSE IF NonProgressive = {}
         THEN /\ sniffed'.type = "progressive"
              /\ \E i \in 1..Len(streamCandidates) :
                   sniffed'.url = streamCandidates[i].url
         ELSE \E i \in NonProgressive :
                /\ sniffed' = [url |-> streamCandidates[i].url,
                               type |-> streamCandidates[i].type]
                /\ \A j \in NonProgressive :
                     /\ streamCandidates[j].priority <= streamCandidates[i].priority
                     /\ streamCandidates[j].priority = streamCandidates[i].priority
                          => i <= j]_vars

(***************************************************************************)
(* Properties of the server's routes                                       *)
(***************************************************************************)
\* The lines of body of the given kind for channel id.
LinesOf(body, kind, id) ==
  {k \in 1..Len(body) : body[k].kind = kind /\ body[k].id = id}

\* The registered channels with this id that have a streamUrl.
Hydrated(id) ==
  {i \in 1..Len(channels) : channels[i].id = id /\ channels[i].streamUrl # Null}

\* body is a playlist with one #EXTINF line and, right after it, one URL
\* line for every registered channel that has a streamUrl, and no other.
ListsHydrated(body) ==
  /\ body[1].kind = "EXTM3U"
  /\ \A k \in 2..Len(body) :
       \/ body[k].kind = "EXTINF" /\ k < Len(body) /\ body[k + 1].kind = "URL"
            /\ body[k + 1].id = body[k].id
       \/ body[k].kind = "URL" /\ body[k - 1].kind = "EXTINF"
  /\ \A k \in 2..Len(body) : body[k].id \in ChannelIds
  /\ \A id \in ChannelIds :
       /\ Cardinality(LinesOf(body, "EXTINF", id)) = Cardinality(Hydrated(id))
       /\ Cardinality(LinesOf(body, "URL", id)) = Cardinality(Hydrated(id))

\* C24: generatePlaylist gives one #EXTINF and URL pair for every registered
\* channel with a streamUrl and none for any other; while playlistReady is
\* false it gives the placeholder, and GET /playlist.m3u8 answers 503 and no
\* playlist.
PlaylistListsHydrated ==
  [][GetPlaylist =>
       IF playlistReady
         THEN /\ resp'.status = 200
              /\ resp'.body = generatePlaylist(channels, TRUE)
              /\ ListsHydrated(resp'.body)
         ELSE /\ resp'.status = 503
              /\ \A k \in 1..Len(resp'.body) : resp'.body[k].kind # "EXTINF"
              /\ generatePlaylist(channels, FALSE) = StillHydrating]_vars

PartialPlaylistServed ==
  /\ resp.status = 200
  /\ Len(resp.body) = 3
  /\ playlistReady
  /\ Len(channels) = 2
  /\ \E i \in 1..2 : channels[i].streamUrl = Null

\* C25: GET /hls/:id/local/:segment reads only files inside the job's
\* working directory: a request whose resolved path is not inside it is
\* answered without a file.
SegmentInsideWorkDir ==
  resp.route = "segment" /\ resp.status = 200
    => InsideDirectory(resp.body, WorkDir)

\* The upstream fetch has failed: no answer, or an error status.
Failed(upstream) == upstream.status = 0 \/ upstream.status >= 400

\* C26: a proxied request whose upstream fetch fails (an error answer or a
\* network failure) is answered with a gateway error, and the channel's
\* streamUrl, cookies and request headers stay as they were.
GatewayErrorOnFailure ==
  [][\A upstream \in Upstreams :
       ProxyRequest(upstream) /\ Failed(upstream)
         => resp'.status = 502 /\ pchannel' = pchannel]_vars

\* The cookie names a batch of headers or an array of cookies sets.
NamesOf(cookies) == {cookies[i].name : i \in 1..Len(cookies)} \ {""}

\* The last of the cookies with this name.
LastOf(cookies, name) ==
  cookies[CHOOSE i \in 1..Len(cookies) :
            /\ cookies[i].name = name
            /\ \A j \in (i + 1)..Len(cookies) : cookies[j].name # name]

\* Every cookie of result is the one written last under its name, when
\* first is folded into from and then later.
LastWriteWins(result, from, first, second) ==
  \A i \in 1..Len(result) :
    result[i] = IF result[i].name \in NamesOf(second)
                  THEN LastOf(second, result[i].name)
                ELSE IF result[i].name \in NamesOf(first)
                  THEN LastOf(first, result[i].name)
                ELSE LastOf(from, result[i].name)

\* C27: updateCookies is last-write-wins per cookie name, and two batches of
\* Set-Cookie headers folded into a channel's cookies in either order give
\* the same set of cookies.
CookiesCommute ==
  fold # NoFold =>
    /\ LastWriteWins(fold.ab, fold.from, fold.a, fold.b)
    /\ LastWriteWins(fold.ba, fold.from, fold.b, fold.a)
    /\ Range(fold.ab) = Range(fold.ba)

\* The two batches leave every cookie name that both set with the same
\* value, and the channel stays within the limit of cookies.
Compatible ==
  /\ \A name \in NamesOf(fold.a) \cap NamesOf(fold.b) :
       LastOf(fold.a, name) = LastOf(fold.b, name)
  /\ Cardinality(NamesOf(fold.from) \cup NamesOf(fold.a) \cup NamesOf(fold.b))
       <= MaxCookies

\* C27, amended: the two orders give the same set of cookies when the
\* batches agree on every name that both set and the limit of cookies is
\* not exceeded.
CompatibleCookiesCommute ==
  fold # NoFold =>
    /\ LastWriteWins(fold.ab, fold.from, fold.a, fold.b)
    /\ LastWriteWins(fold.ba, fold.from, fold.b, fold.a)
    /\ Compatible => Range(fold.ab) = Range(fold.ba)

FoldedBothWays ==
  /\ fold # NoFold
  /\ Compatible
  /\ NamesOf(fold.a) # {} /\ NamesOf(fold.b) # {}
  /\ fold.ab # fold.ba

\* The workers of the call that have not broken out of their loop.
Resolving == {w \in HWorkers : wk[w].pc # "off"}

Min(a, b) == IF a < b THEN a ELSE b

RecoversWhenOutputResumes ==
  [][\A w \in Wrappers :
       /\ (Check(w) /\ state[w] = "degraded" /\ quiet[w] = 0 /\ ~erred[w])
            => state'[w] = "healthy"
       /\ (state[w] # "degraded" /\ state'[w] = "degraded")
            => Check(w) /\ (Stale(w) \/ Critical(w))]_vars

\* At most MaxCookies cookies, and no name twice.
Bounded(cookies) ==
  /\ Len(cookies) <= MaxCookies
  /\ \A i, j \in 1..Len(cookies) : cookies[i].name = cookies[j].name => i = j

\* The cookie names in the order they were added: those of the channel,
\* then the new ones of the headers.
AddedOrder(cookies, setCookieHeaders) ==
  LET all == SetAll(SetAll(<<>>, cookies), setCookieHeaders)
  IN [i \in 1..Len(all) |-> all[i].name]

\* result keeps the names added last: a name that is gone was added before
\* every name that is kept, and none is gone below the limit.
OldestEvicted(cookies, setCookieHeaders, result) ==
  LET order == AddedOrder(cookies, setCookieHeaders)
      kept(i) == order[i] \in NamesOf(result)
  IN /\ NamesOf(result) \subseteq Range(order)
     /\ \A i, j \in 1..Len(order) : ~kept(i) /\ kept(j) => i < j
     /\ Len(result) = Min(Len(order), MaxCookies)

\* C35: after any fetchStream/updateCookies calls the channel holds at most
\* MaxCookies cookies and no cookie name twice, and an update that
\* overflows drops the names added first and keeps those added last.
CookieCapKept ==
  /\ Bounded(pchannel.cookies)
  /\ fold # NoFold =>
       LET once == updateCookies(fold.from, fold.a)
       IN /\ Bounded(once) /\ Bounded(fold.ab) /\ Bounded(fold.ba)
          /\ OldestEvicted(fold.from, fold.a, once)
          /\ OldestEvicted(once, fold.b, fold.ab)

CookieEvicted ==
  /\ fold # NoFold
  /\ Len(fold.from) = MaxCookies
  /\ NamesOf(fold.from) \ NamesOf(updateCookies(fold.from, fold.a)) # {}
  /\ NamesOf(fold.a) \ NamesOf(fold.from) # {}

\* C37: after any reconcile pass the channel ids of the registry are
\* pairwise distinct, also when the list has the same event twice.
DistinctChannelIds ==
  \A i, j \in DOMAIN channels : channels[i].id = channels[j].id => i = j

\* C36: playlistReady is true only when no hydration worker of any call is
\* still running and every channel of the registry has been taken by a
\* worker, also when rebuilds overlap.
ReadyOnlyWhenHydrated ==
  playlistReady =>
    /\ \A w \in HWorkers : wk[w].pc = "off" /\ later.wk[w].pc = "off"
    /\ \A i \in DOMAIN channels : claimed[i] >= 1

\* C38: the ensureJob a hydration worker awaits never returns a job whose
\* cleanupJob is in progress (its process signalled, its working directory
\* about to be removed).
CleaningJobNotReturned ==
  [][\A w \in HWorkers :
       HJobReady(w) => rjobs[wk[w].id] # "cleaning"]_vars

\* ---------------------------------------------------------------------
\* The result of PlayerDetector.inspect.

\* The places of the adapters that reported an hls or dash stream.
ReportedStream ==
  {i \in DOMAIN results : results[i].type \in {"hls", "dash"}}

\* C31: once inspect has returned, and some adapter reported a stream that
\* is not progressive, the value returned is the report of the first such
\* adapter in registration order (so it is never a progressive one).
StreamBeatsProgressive ==
  (inspected # Pending /\ ReportedStream # {}) =>
    inspected =
      results[CHOOSE i \in ReportedStream : \A j \in ReportedStream : i <= j]

\* ---------------------------------------------------------------------
\* The exit of a process whose kill call has already returned.

\* kill(channelId) on wrapper w has returned while w's process was running.
Outlived(w) == kpc[w] \in {"gaveUp", "escalated"}

\* C39: when the process of a wrapper whose kill call has returned exits
\* while the process map holds a newer wrapper under the same channel id,
\* the map keeps that entry and no further release is made.
LateExitSparesNewer ==
  [][\A w \in Wrappers :
       ( /\ proc[w] = "alive" /\ proc'[w] = "exited"
         /\ Outlived(w)
         /\ processes[chan[w]] \notin {NoWrapper, w} )
       => /\ processes'[chan[w]] = processes[chan[w]]
          /\ released'[w] = released[w]]_vars

\* ---------------------------------------------------------------------
\* The capture pipeline: flow control, teardown, what reaches stdin.

\* C32: while a write to stdin has returned false and stdin has not emitted
\* drain since, the capture is paused and no frame is written to stdin; the
\* capture leaves the paused state only in the step in which stdin emits
\* that drain, and only when the job is running.
BackpressureHeld ==
  [][ /\ stdin'.needDrain => isPaused'
      /\ (stdin.needDrain /\ stdin'.needDrain) => piped' = piped
      /\ (isPaused /\ ~isPaused') =>
           (stdin.needDrain /\ ~stdin'.needDrain /\ isRunning) ]_vars

\* A write was refused, stdin drained, the capture was resumed, and a later
\* write was refused again.
RefusedAgain == refused >= 2 /\ isPaused /\ isRunning

\* C33: the browser is closed and the transcoder is signalled only after
\* stdin has been ended (or the transcoder has exited by itself).
StdinEndedFirst ==
  \A i \in DOMAIN tornDown :
    tornDown[i] \in {"browser", "signal"} =>
      \E j \in 1..(i - 1) : tornDown[j] \in {"end", "exit"}

\* C34: every frame and every audio chunk the capture emitted while the job
\* was running has been written to stdin.
BothStreamsPiped == piped = emitted

\* C40: every screencast frame delivered while the capture is capturing,
\* paused or not, is acknowledged in the step that delivers it.
EveryFrameAcknowledged ==
  [][(delivered' = delivered + 1 /\ isCapturing) => acked' = acked + 1]_vars

====
